---- MODULE Spec2Model ----
(***************************************************************************)
(* InternalCallTree (remix-debug, solidity-decoder/internalCallTree.ts):   *)
(* the reconstruction of the scope tree of a transaction from its VM       *)
(* trace.  The asynchronous, recursive buildTree is modelled with an       *)
(* explicit stack of activation frames; one action is one iteration of the *)
(* while loop of the innermost activation (or the return of one).          *)
(* Trace steps are indexed from 0, as in the source.                       *)
(***************************************************************************)
EXTENDS Integers, Sequences, FiniteSets, TLC

VARIABLES
  trace,    \* traceManager.trace: step -> StepDetail (gasCost is rewritten by the pass)
  env,      \* the collaborators' answers: source map, compiled artifacts, options
  tree,     \* the fields of the InternalCallTree object
  frames,   \* the pending activations of buildTree, outermost first
  events,   \* events triggered since the last newTraceLoaded
  loaded,   \* whether a newTraceLoaded event has been handled
  previous, \* scopes, scopeStarts and gasCostPerLine of the previous finished load
  parked,   \* the activations of the other build when two builds are in progress
  answer,   \* the last query made of the tree and what it returned
  wallet,   \* RemixWalletPlugin: its fields, the calls in flight, what the last step emitted
  tutorial  \* TutorialEventDetector: its fields, the completions in flight, the callbacks made

vars == <<trace, env, tree, frames, events, loaded, previous, parked, answer, wallet, tutorial>>

---------------------------------------------------------------------------
(* Bounds of the model *)

MaxTraceLen == 5
MaxNest == 6
StartGas == 100
ShortTraceLen == 3
MaxInFlight == 2
MaxCallbacks == 2
MaxTableLen == 3
MaxEntryPoint == 3

---------------------------------------------------------------------------
(* Small helpers *)

EmptyMap == <<>>

Put(f, k, v) == [x \in DOMAIN f \cup {k} |-> IF x = k THEN v ELSE f[x]]

Has(f, k) == k \in DOMAIN f

RECURSIVE Pow2(_)
Pow2(n) == IF n = 0 THEN 1 ELSE 2 * Pow2(n - 1)

RECURSIVE SumOver(_, _)
SumOver(S, g) ==
  IF S = {} THEN 0
  ELSE LET x == CHOOSE y \in S : TRUE IN g[x] + SumOver(S \ {x}, g)

MaxOf(S) == CHOOSE x \in S : \A y \in S : y <= x

---------------------------------------------------------------------------
(* Source locations *)

Loc(f, s, l, j) == [file |-> f, start |-> s, length |-> l, jump |-> j]

\* let currentSourceLocation = sourceLocation || { start: -1, length: -1, file: -1, jump: '-' }
DefaultLocation == Loc(-1, -1, -1, "-")

\* a location for which the tracker's lookup throws (missing artifact, decode error)
Unresolvable == Loc(-2, -2, -2, "!")

\* the key start + ':' + length + ':' + file
SrcKey(loc) == <<loc.start, loc.length, loc.file>>

includedSource(source, included) ==
  /\ included.start # -1
  /\ included.length # -1
  /\ included.file # -1
  /\ included.start >= source.start
  /\ included.start + included.length <= source.start + source.length
  /\ included.file = source.file

---------------------------------------------------------------------------
(* The compiled artifact of the contract "C": one user source (file 0).   *)

\* the file ids of compilationResult.data.sources
SourceFiles == {0}

\* sourceLocationTracker.getTotalAmountOfSources
AmountOfSources == Cardinality(SourceFiles)

isInvalidSourceLocation(loc, amount) == loc.file = -1 \/ loc.file > amount - 1

ContractName == "C"

Param(i, n, s) == [id |-> i, name |-> n, src |-> s, nodeType |-> "VariableDeclaration"]

NoNode == [id |-> -1, kind |-> "none", hasParameters |-> FALSE,
           inputs |-> <<>>, outputs |-> <<>>]

\* FunctionDefinition nodes of the AST of file 0
FunctionNodes ==
  { [id |-> 1, kind |-> "function", hasParameters |-> TRUE,
     inputs |-> << Param(11, "a", <<8, 1, 0>>) >>,
     outputs |-> << Param(12, "", <<9, 1, 0>>) >>],
    [id |-> 2, kind |-> "constructor", hasParameters |-> TRUE,
     inputs |-> << Param(13, "b", <<7, 1, 0>>) >>,
     outputs |-> <<>>],
    [id |-> 3, kind |-> "function", hasParameters |-> TRUE,
     inputs |-> <<>>,
     outputs |-> << Param(14, "r", <<5, 2, 0>>) >>] }

\* VariableDeclarationStatement nodes of file 0: uint x = <expr at 1:2:0>, declared at 6:1:0
DeclarationStatements ==
  { [declarations |-> << Param(21, "x", <<6, 1, 0>>) >>,
     hasInitialValue |-> TRUE, initialValueSrc |-> <<1, 2, 0>>] }

\* every VariableDeclaration node a full walk of the AST of file 0 meets
VariableDeclarationNodes ==
  UNION { {n.inputs[i] : i \in DOMAIN n.inputs} \cup {n.outputs[i] : i \in DOMAIN n.outputs}
          : n \in FunctionNodes }
  \cup UNION { {d.declarations[i] : i \in DOMAIN d.declarations} : d \in DeclarationStatements }

\* solidityProxy.ast(sourceLocation, generatedSources, address): no AST for a file
\* that is not a source of the compilation
HasAst(file) == file \in SourceFiles

\* astWalker.walkFull((ast[1] as any).ast, ...): the node whose id is the debug entry's
FindFunctionNode(file, id) ==
  IF HasAst(file) /\ \E n \in FunctionNodes : n.id = id
  THEN CHOOSE n \in FunctionNodes : n.id = id
  ELSE NoNode

extractVariableDeclarations(file) ==
  LET own == {n.src : n \in VariableDeclarationNodes}
      ini == {d.initialValueSrc : d \in {x \in DeclarationStatements : x.hasInitialValue}}
  IN [k \in own \cup ini |->
        IF k \in ini
        THEN (CHOOSE d \in DeclarationStatements :
                d.hasInitialValue /\ d.initialValueSrc = k).declarations
        ELSE << CHOOSE n \in VariableDeclarationNodes : n.src = k >>]

\* traceManager.getCurrentCalledAddressAt(step): the steps of the traces of Setups all
\* run at the address of contract C
CalledAddress == "0xC"

\* the address of a contract compiled on its own: its compilation result gives file id 0
\* to another source, with other declarations
LibraryAddress == "0xD"

LibraryDeclarationNodes == { Param(41, "y", <<6, 1, 0>>), Param(42, "z", <<2, 1, 0>>) }

\* extractVariableDeclarations of the AST that solidityProxy.ast(sourceLocation,
\* generatedSources, address) returns
DeclarationsOfAst(file, address) ==
  IF address = CalledAddress THEN extractVariableDeclarations(file)
  ELSE [k \in {n.src : n \in LibraryDeclarationNodes} |->
          << CHOOSE n \in LibraryDeclarationNodes : n.src = k >>]

---------------------------------------------------------------------------
(* functionDebugData tables: sequences of entries in the object's key order *)

Entry(k, e, i) == [key |-> k, entryPoint |-> e, id |-> i]

NoEntry == Entry("null", -1, 0)

RECURSIVE InsertSorted(_, _)
InsertSorted(e, s) ==
  IF s = <<>> THEN <<e>>
  ELSE IF e.entryPoint < Head(s).entryPoint THEN <<e>> \o s
  ELSE <<Head(s)>> \o InsertSorted(e, Tail(s))

\* .sort((a, b) => a.entryPoint - b.entryPoint), a stable sort
RECURSIVE SortByEntryPoint(_)
SortByEntryPoint(s) ==
  IF s = <<>> THEN <<>>
  ELSE InsertSorted(s[Len(s)], SortByEntryPoint(SubSeq(s, 1, Len(s) - 1)))

findEntryByRange(value, mapping) ==
  LET entries == SortByEntryPoint(mapping)
      hits == {i \in DOMAIN entries :
                 /\ value >= entries[i].entryPoint
                 /\ (i = Len(entries) \/ value < entries[i + 1].entryPoint)}
  IN IF hits = {} THEN NoEntry
     ELSE entries[CHOOSE i \in hits : \A j \in hits : i <= j]

TblFG == << Entry("f", 1, 1), Entry("g", 3, 3) >>
TblF == << Entry("f", 1, 1) >>
TblCtor == << Entry("constructor_C", 3, 2) >>
TblYul == << Entry("abi_decode", 1, 0), Entry("h", 3, 4) >>

---------------------------------------------------------------------------
(* Traces.  A trace is drawn as a sequence of step kinds; call depth and   *)
(* remaining gas follow from the kinds.                                    *)

Kind(o, p, l, s) == [op |-> o, pc |-> p, loc |-> l, stack |-> s]

KOuter == Kind("PUSH1", 0, Loc(0, 0, 4, "-"), 2)
KInner == Kind("PUSH1", 0, Loc(0, 1, 2, "-"), 1)
KInvalid == Kind("PUSH1", 0, Loc(-1, 0, 0, "-"), 0)
KEnter == Kind("JUMPDEST", 1, Loc(0, 0, 4, "i"), 1)
KOut == Kind("JUMP", 2, Loc(0, 5, 2, "o"), 1)
KCall == Kind("CALL", 0, Loc(0, 0, 4, "-"), 3)
KStop == Kind("STOP", 0, Loc(0, 1, 2, "-"), 0)
KHigh == Kind("JUMPDEST", 3, Loc(0, 5, 2, "-"), 2)
KCreate == Kind("CREATE", 0, Loc(0, 5, 2, "-"), 3)
KNew == Kind("CREATE", 3, Loc(0, 5, 2, "-"), 3)
KThrow == Kind("PUSH1", 0, Unresolvable, 0)

\* ks: the step kinds of a family of traces; first: the kinds its step 0 is drawn from
\* (execution starts in the dispatcher, below every function entry point and with an
\* empty stack: step 0 is neither a call nor inside a function)
Setup(d, c, rc, art, loc, conv, first, ks) ==
  [deployed |-> d, creation |-> c, rootIsCreation |-> rc, hasArtifact |-> art,
   includeLocalVariables |-> loc, hasConverter |-> conv, first |-> first, kinds |-> ks]

Setups ==
  { Setup(TblF, TblCtor, FALSE, TRUE, TRUE, TRUE, {KOuter, KInvalid},
          {KOuter, KInner, KInvalid, KEnter, KOut, KCall, KStop}),
    Setup(TblFG, TblCtor, FALSE, TRUE, TRUE, FALSE, {KOuter},
          {KOuter, KEnter, KOut, KHigh}),
    Setup(TblF, TblCtor, TRUE, TRUE, TRUE, TRUE, {KOuter},
          {KOuter, KHigh, KCreate, KNew, KStop, KThrow}),
    Setup(TblYul, TblYul, FALSE, TRUE, FALSE, FALSE, {KOuter, KThrow},
          {KOuter, KEnter, KOut, KHigh, KThrow}),
    Setup(TblF, TblCtor, FALSE, FALSE, TRUE, TRUE, {KOuter}, {KOuter}) }

\* traceHelper.isCallInstruction / isCreateInstruction
isCallInstruction(step) ==
  step.op \in {"CALL", "STATICCALL", "CALLCODE", "CREATE", "DELEGATECALL", "CREATE2"}

isCreateInstruction(step) == step.op \in {"CREATE", "CREATE2"}

RECURSIVE DepthAt(_, _)
DepthAt(ks, i) ==
  IF i = 0 THEN 0
  ELSE LET d == DepthAt(ks, i - 1)
       IN IF isCallInstruction(ks[i - 1]) THEN d + 1
          ELSE IF ks[i - 1].op = "STOP" /\ d > 0 THEN d - 1
          ELSE d

\* step i spends 2^i gas, so that a sum of costs names the set of steps summed
GasAt(i) == StartGas - (Pow2(i) - 1)

\* the gasCost field a node reports: for a call it includes the gas handed to the callee
ReportedGasCost(k, i) == IF isCallInstruction(k) THEN Pow2(i) + 1 ELSE Pow2(i)

MakeTrace(ks) ==
  [i \in DOMAIN ks |->
     [depth |-> DepthAt(ks, i), gas |-> GasAt(i), gasCost |-> ReportedGasCost(ks[i], i),
      op |-> ks[i].op, pc |-> ks[i].pc, stack |-> ks[i].stack]]

TraceLength == Cardinality(DOMAIN trace)

Steps == DOMAIN trace

---------------------------------------------------------------------------
(* The tree object *)

NoStep == -1

FreshTree ==
  [scopes |-> EmptyMap,
   functionCallStack |-> <<>>,
   functionDefinitionsByScope |-> EmptyMap,
   scopeStarts |-> EmptyMap,
   gasCostPerLine |-> EmptyMap,
   variableDeclarationByFile |-> EmptyMap,
   reducedTrace |-> <<>>,
   locationAndOpcodePerVMTraceIndex |-> EmptyMap,
   pendingConstructorExecutionAt |-> -1,
   pendingConstructorId |-> -1,
   constructorsStartExecution |-> EmptyMap,
   pendingConstructor |-> NoNode,
   variables |-> EmptyMap,
   scopesMapping |-> EmptyMap,
   processedFunctions |-> <<>>]

\* a reset that forgets to empty processedFunctions
resetKeepsProcessedFunctions ==
  [FreshTree EXCEPT !.processedFunctions = tree.processedFunctions]

reset == FreshTree

Scope(first, creation) ==
  [firstStep |-> first, lastStep |-> NoStep, locals |-> EmptyMap,
   isCreation |-> creation, gasCost |-> 0]

RootId == <<1>>

NoScopeId == <<>>

NoResult ==
  [scope |-> NoScopeId, functions |-> <<>>, entries |-> {}, variables |-> {}, error |-> "",
   key |-> "null", declarations |-> <<>>]

\* no query has been made
NoAnswer == [query |-> "none", args |-> <<>>, result |-> NoResult]

\* activeAddress: string | null
NoAddress == "null"

\* the wallet plugin after construction: nothing unlocked, not activated
NoWallet ==
  [token |-> FALSE, listening |-> FALSE, unlocked |-> <<>>, activeAddress |-> NoAddress,
   pending |-> {}, emitted |-> <<>>, cleared |-> FALSE]

\* currentStepId: string | null
NoStepId == "null"

\* the tutorial event detector after construction
NoTutorial ==
  [stepCompleted |-> FALSE, currentStepId |-> NoStepId, listeners |-> {}, searching |-> {},
   validating |-> <<>>, monitoring |-> FALSE, completed |-> <<>>]

\* no other build: the activations in frames are those of the only trace loaded
NoBuild == [frames |-> <<>>, runsLatest |-> TRUE, reloaded |-> FALSE]

Init ==
  \E s \in Setups : \E n \in 1..MaxTraceLen : \E ks \in [0..(n - 1) -> s.kinds] :
    /\ ks[0] \in s.first
    /\ trace = MakeTrace(ks)
    /\ env = [srcmap |-> [i \in DOMAIN ks |-> ks[i].loc],
              deployed |-> s.deployed, creation |-> s.creation,
              rootIsCreation |-> s.rootIsCreation, hasArtifact |-> s.hasArtifact,
              includeLocalVariables |-> s.includeLocalVariables,
              hasConverter |-> s.hasConverter]
    /\ tree = FreshTree
    /\ frames = <<>>
    /\ events = <<>>
    /\ loaded = FALSE
    /\ previous = [scopes |-> EmptyMap, scopeStarts |-> EmptyMap, gasCostPerLine |-> EmptyMap]
    /\ parked = NoBuild
    /\ answer = NoAnswer
    /\ wallet = NoWallet
    /\ tutorial = NoTutorial

---------------------------------------------------------------------------
(* Queries *)

parentScope(scopeId) ==
  IF Len(scopeId) <= 1 THEN <<>> ELSE SubSeq(scopeId, 1, Len(scopeId) - 1)

\* util.findLowerBoundValue: the greatest element of the array that is <= target
findLowerBoundValue(target, array) ==
  IF \E k \in array : k <= target THEN MaxOf({k \in array : k <= target}) ELSE NoStep

findScopeId(vmtraceIndex) ==
  LET scopes == DOMAIN tree.scopeStarts
  IN IF scopes = {} THEN NoScopeId
     ELSE LET scopeStart == findLowerBoundValue(vmtraceIndex, scopes)
          IN IF scopeStart = NoStep THEN NoScopeId ELSE tree.scopeStarts[scopeStart]

\* scope.lastStep && ... : an unset lastStep and a lastStep of 0 are both falsy
RECURSIVE ClimbScopes(_, _)
ClimbScopes(scopeId, vmtraceIndex) ==
  IF ~Has(tree.scopes, scopeId) THEN NoScopeId
  ELSE LET scope == tree.scopes[scopeId]
       IN IF /\ scope.lastStep # NoStep /\ scope.lastStep # 0
             /\ scope.lastStep < vmtraceIndex
             /\ scope.firstStep > 0
          THEN ClimbScopes(parentScope(scopeId), vmtraceIndex)
          ELSE scopeId

\* the id of the scope findScope returns (NoScopeId for null)
findScope(vmtraceIndex) ==
  LET scopeId == findScopeId(vmtraceIndex)
  IN IF scopeId = NoScopeId THEN NoScopeId ELSE ClimbScopes(scopeId, vmtraceIndex)

RECURSIVE CollectFunctions(_)
CollectFunctions(scopeId) ==
  LET here == IF Has(tree.functionDefinitionsByScope, scopeId)
              THEN << [scopeId |-> scopeId,
                       functionDefinition |-> tree.functionDefinitionsByScope[scopeId].functionDefinition] >>
              ELSE <<>>
      parent == parentScope(scopeId)
  IN IF parent = <<>> THEN here ELSE here \o CollectFunctions(parent)

retrieveFunctionsStack(vmtraceIndex) ==
  LET scope == findScope(vmtraceIndex)
  IN IF scope = NoScopeId THEN <<>>
     ELSE LET first == tree.scopes[scope].firstStep
          IN IF ~Has(tree.scopeStarts, first) THEN <<>>
             ELSE CollectFunctions(tree.scopeStarts[first])

getLocalVariableById(id) == IF Has(tree.variables, id) THEN {tree.variables[id]} ELSE {}

\* a lookup by file alone
getGasCostPerLineOfFile(file, line) ==
  {tree.gasCostPerLine[k] : k \in {j \in DOMAIN tree.gasCostPerLine : j[1] = file}}

getGasCostPerLine(file, line) ==
  IF Has(tree.gasCostPerLine, <<file, line>>) THEN {tree.gasCostPerLine[<<file, line>>]} ELSE {}

---------------------------------------------------------------------------
(* Parameters and local variables *)

DollarNames == << "$0", "$1", "$2" >>

\* extractLocationFromAstVariable is 'default' for every declaration of this AST
Variable(n, depth, loc, param) ==
  [name |-> n, stackDepth |-> depth, sourceLocation |-> loc, isParameter |-> param,
   type |-> IF param THEN "memory" ELSE "storage"]

\* the loop of addParams from parameter i on; stackPosition is advanced on every turn
RECURSIVE AddParamsFrom(_, _, _, _, _, _, _, _)
AddParamsFrom(t, params, i, scopeId, loc, stackLength, stackPosition, dir) ==
  IF i > Len(params) THEN t
  ELSE
    LET param == params[i]
        stackDepth == stackLength + (dir * stackPosition)
        attributesName == IF param.name = "" THEN DollarNames[i] ELSE param.name
        newParam == Variable(attributesName, stackDepth, loc, TRUE)
        t1 == IF stackDepth >= 0
              THEN [t EXCEPT
                      !.scopes[scopeId].locals = Put(@, attributesName, newParam),
                      !.variables = IF Has(@, param.id) THEN @ ELSE Put(@, param.id, newParam)]
              ELSE t
    IN AddParamsFrom(t1, params, i + 1, scopeId, loc, stackLength, stackPosition + dir, dir)

\* a loop that advances stackPosition before the first parameter is placed
addParamsOneSlotAhead(t, params, scopeId, loc, stackLength, stackPosition, dir) ==
  AddParamsFrom(t, params, 1, scopeId, loc, stackLength, stackPosition + dir, dir)

addParams(t, params, scopeId, loc, stackLength, stackPosition, dir) ==
  AddParamsFrom(t, params, 1, scopeId, loc, stackLength, stackPosition, dir)

\* the names addParams returns: those of the parameters it kept
RECURSIVE ParamNames(_, _, _, _, _)
ParamNames(params, i, stackLength, stackPosition, dir) ==
  IF i > Len(params) THEN <<>>
  ELSE (IF stackLength + (dir * stackPosition) >= 0
        THEN << IF params[i].name = "" THEN DollarNames[i] ELSE params[i].name >>
        ELSE <<>>)
       \o ParamNames(params, i + 1, stackLength, stackPosition + dir, dir)

\* traceManager.getStackAt throws for a step outside the trace
StackKnown(step) == step \in DOMAIN trace

registerFunctionParameters(t, functionDefinition, step, scopeId, loc) ==
  LET t0 == [t EXCEPT !.functionCallStack = Append(@, step)]
      ok == StackKnown(step) /\ functionDefinition.hasParameters
      stackLength == trace[step].stack
      inputs == functionDefinition.inputs
      outputs == functionDefinition.outputs
      t1 == IF ok THEN addParams(t0, inputs, scopeId, loc, stackLength, Len(inputs), -1)
            ELSE t0
      t2 == IF ok THEN addParams(t1, outputs, scopeId, loc, stackLength, 0, 1) ELSE t1
      names == IF ok THEN ParamNames(inputs, 1, stackLength, Len(inputs), -1) ELSE <<>>
  IN [t2 EXCEPT !.functionDefinitionsByScope =
        Put(@, scopeId, [functionDefinition |-> functionDefinition.id, inputs |-> names])]

resolveVariableDeclarationWithin(t, sourceLocation, address) ==
  LET file == sourceLocation.file
      cache == IF Has(t.variableDeclarationByFile, file) THEN t.variableDeclarationByFile
               ELSE IF HasAst(file)
               THEN Put(t.variableDeclarationByFile, file, DeclarationsOfAst(file, address))
               ELSE t.variableDeclarationByFile
      within == IF Has(cache, file)
                THEN {k \in DOMAIN cache[file] :
                        /\ sourceLocation.start <= k[1]
                        /\ k[1] + k[2] <= sourceLocation.start + sourceLocation.length}
                ELSE {}
      found == IF within # {}
               THEN cache[file][CHOOSE k \in within : \A j \in within : k[1] <= j[1]]
               ELSE <<>>
  IN [cache |-> cache, declarations |-> found]

resolveVariableDeclaration(t, sourceLocation, address) ==
  LET file == sourceLocation.file
      cache == IF Has(t.variableDeclarationByFile, file) THEN t.variableDeclarationByFile
               ELSE IF HasAst(file)
               THEN Put(t.variableDeclarationByFile, file, DeclarationsOfAst(file, address))
               ELSE t.variableDeclarationByFile
      found == IF Has(cache, file) /\ Has(cache[file], SrcKey(sourceLocation))
               THEN cache[file][SrcKey(sourceLocation)] ELSE <<>>
  IN [cache |-> cache, declarations |-> found]

RECURSIVE IncludeFrom(_, _, _, _, _, _)
IncludeFrom(t, decls, i, step, sourceLocation, scopeId) ==
  IF i > Len(decls) THEN t
  ELSE
    LET d == decls[i]
        newVar == Variable(d.name, trace[step].stack, sourceLocation, FALSE)
        t1 == IF ~Has(t.scopes[scopeId].locals, d.name) /\ d.name # ""
              THEN [t EXCEPT !.scopes[scopeId].locals = Put(@, d.name, newVar),
                             !.variables = Put(@, d.id, newVar)]
              ELSE t
    IN IncludeFrom(t1, decls, i + 1, step, sourceLocation, scopeId)

includeVariableDeclaration(t, step, sourceLocation, scopeId) ==
  LET r == resolveVariableDeclaration(t, sourceLocation, CalledAddress)
  IN IncludeFrom([t EXCEPT !.variableDeclarationByFile = r.cache],
                 r.declarations, 1, step, sourceLocation, scopeId)

---------------------------------------------------------------------------
(* buildTree: what one turn of the while loop computes for activation f *)

Frame(scopeId, step, isCreation, sourceLocation, validSourceLocation) ==
  [scopeId |-> scopeId, step |-> step, subScope |-> 1, isCreation |-> isCreation,
   currentSourceLocation |-> sourceLocation,
   previousValidSourceLocation |-> validSourceLocation]

Top == frames[Len(frames)]

Building == frames # <<>>

Done == loaded /\ ~Building

InLoop == Building /\ Top.step < TraceLength

\* extractSourceLocation: the raw location of the source map
RawLocation(f) == env.srcmap[f.step]

getFunctionDebugData(vmtraceIndex, isCreation) ==
  findEntryByRange(trace[vmtraceIndex].pc, IF isCreation THEN env.creation ELSE env.deployed)

isFunctionEntryPointUnmemoized(f) ==
  LET functionDebugData == getFunctionDebugData(f.step, f.isCreation)
  IN functionDebugData # NoEntry /\ functionDebugData.id # 0

isFunctionEntryPoint(f) ==
  LET functionDebugData == getFunctionDebugData(f.step, f.isCreation)
  IN /\ functionDebugData # NoEntry
     /\ functionDebugData.id # 0
     /\ \A i \in DOMAIN tree.processedFunctions :
          tree.processedFunctions[i] # functionDebugData.id

NotIncluded(f) == ~includedSource(RawLocation(f), f.currentSourceLocation)

CurrentLocation(f) == IF NotIncluded(f) THEN RawLocation(f) ELSE f.currentSourceLocation

ValidLocation(f) ==
  IF isInvalidSourceLocation(CurrentLocation(f), AmountOfSources)
  THEN f.previousValidSourceLocation
  ELSE CurrentLocation(f)

\* stepDetail.gasCost as the pass rewrites it
StepGasCost(step) ==
  IF (step + 1) \in DOMAIN trace
  THEN trace[step].gas - trace[step + 1].gas
  ELSE trace[step].gasCost

\* offsetToLineColumnConverter.offsetToLineColumn(...).start.line
LineOf(loc) == loc.start \div 2

\* the converter has no line breaks for a file that is no source: the lookup throws
\* and the catch of the gas-per-line block drops the step
GasPerLineAfter(gpl, loc, step, cost) ==
  IF env.hasConverter /\ HasAst(loc.file)
  THEN LET k == <<loc.file, LineOf(loc)>>
           old == IF Has(gpl, k) THEN gpl[k] ELSE [gasCost |-> 0, indexes |-> <<>>]
       IN Put(gpl, k, [gasCost |-> old.gasCost + cost, indexes |-> Append(old.indexes, step)])
  ELSE gpl

\* every step charged to the root scope
ChargedScopeRoot(f) == RootId

\* the scope that is charged the step's gas
ChargedScope(f) == f.scopeId

\* the tree after lines 343-429 of the turn
Accounted(f) ==
  LET functionDebugData == getFunctionDebugData(f.step, f.isCreation)
      cost == StepGasCost(f.step)
  IN [tree EXCEPT
        !.processedFunctions =
            IF isFunctionEntryPoint(f) THEN Append(@, functionDebugData.id) ELSE @,
        !.reducedTrace = IF NotIncluded(f) THEN Append(@, f.step) ELSE @,
        !.gasCostPerLine = GasPerLineAfter(@, ValidLocation(f), f.step, cost),
        !.locationAndOpcodePerVMTraceIndex =
            Put(@, f.step, [sourceLocation |-> ValidLocation(f),
                            line |-> IF env.hasConverter /\ HasAst(ValidLocation(f).file)
                                     THEN LineOf(ValidLocation(f)) ELSE -1]),
        !.scopes[ChargedScope(f)].gasCost = @ + cost]

TraceAfter(f) == [trace EXCEPT ![f.step].gasCost = StepGasCost(f.step)]

\* Object.entries(compilationResult.data.sources).find(...) finds nothing: ast[1] throws
AstMissing(f) == ~HasAst(ValidLocation(f).file)

FunctionDefinitionAt(f) ==
  LET functionDebugData == getFunctionDebugData(f.step, f.isCreation)
  IN IF functionDebugData = NoEntry THEN NoNode
     ELSE FindFunctionNode(ValidLocation(f).file, functionDebugData.id)

\* 'constructor_' + contractObj.name
ConstructorKey == "constructor_C"

constructorExecutionStarts(f) ==
  getFunctionDebugData(f.step, f.isCreation).key = ConstructorKey

\* constructorsStartExecution[id] is falsy when absent and when it holds 0
ConstructorStarted(t, id) ==
  Has(t.constructorsStartExecution, id) /\ t.constructorsStartExecution[id] # 0

\* the tree after lines 455-461
Armed(f) ==
  LET functionDefinition == FunctionDefinitionAt(f)
      t == Accounted(f)
  IN IF /\ functionDefinition # NoNode
        /\ functionDefinition.kind = "constructor"
        /\ t.pendingConstructorExecutionAt = -1
        /\ ~ConstructorStarted(t, functionDefinition.id)
     THEN [t EXCEPT !.pendingConstructorExecutionAt = ValidLocation(f).start,
                    !.pendingConstructorId = functionDefinition.id,
                    !.pendingConstructor = functionDefinition]
     ELSE t

\* a test that leaves out the CALL-family and CREATE-family instructions
OpensScopeWithoutCalls(f) ==
  constructorExecutionStarts(f) \/ isFunctionEntryPoint(f)

\* line 463
OpensScope(f) ==
  constructorExecutionStarts(f) \/ isCallInstruction(trace[f.step]) \/ isFunctionEntryPoint(f)

callDepthChange(step) ==
  IF (step + 1) < TraceLength
  THEN trace[step].depth # trace[step + 1].depth
  ELSE FALSE

\* a test that takes every Out jump for a return, matched function or not
ClosesScopeOnAnyOutJump(f) ==
  callDepthChange(f.step) \/ RawLocation(f).jump = "o"

\* line 487
ClosesScope(f) ==
  callDepthChange(f.step) \/ (RawLocation(f).jump = "o" /\ FunctionDefinitionAt(f) # NoNode)

Event(n, step) == [name |-> n, step |-> step]

createReducedTrace(t, index) == [t EXCEPT !.reducedTrace = Append(@, index)]

\* a caller that forgets subScope++
SameSubScope(n) == n

\* subScope++
NextSubScope(n) == n + 1

\* an activation returned outStep: the caller resumes there (lines 481-482), or the
\* promise of the outermost activation resolves (lines 93-98)
Returned(t, outStep) ==
  IF Len(frames) = 1
  THEN /\ frames' = <<>>
       /\ tree' = createReducedTrace(t, TraceLength - 1)
       /\ events' = Append(events, Event("callTreeReady", NoStep))
  ELSE /\ frames' = [SubSeq(frames, 1, Len(frames) - 1) EXCEPT
                       ![Len(frames) - 1].step = outStep,
                       ![Len(frames) - 1].subScope = NextSubScope(@)]
       /\ tree' = t
       /\ events' = events

---------------------------------------------------------------------------
(* Actions *)

\* a handler that starts the pass without looking at the compilation result
LoadWithoutArtifactCheck ==
  /\ loaded' = TRUE
  /\ previous' = previous
  /\ tree' = [reset EXCEPT !.scopeStarts = Put(@, 0, RootId),
                           !.scopes = Put(@, RootId, Scope(0, env.rootIsCreation))]
  /\ frames' = << Frame(RootId, 0, env.rootIsCreation, DefaultLocation, DefaultLocation) >>
  /\ events' = <<>>
  /\ UNCHANGED <<trace, env>>

\* the newTraceLoaded handler up to the first turn of buildTree (lines 76-92)
Load ==
  /\ loaded' = TRUE
  /\ previous' = IF loaded
                 THEN [scopes |-> tree.scopes, scopeStarts |-> tree.scopeStarts,
                       gasCostPerLine |-> tree.gasCostPerLine]
                 ELSE previous
  /\ tree' = [reset EXCEPT !.scopeStarts = Put(@, 0, RootId),
                           !.scopes = Put(@, RootId, Scope(0, env.rootIsCreation))]
  /\ IF env.hasArtifact
     THEN /\ frames' = << Frame(RootId, 0, env.rootIsCreation, DefaultLocation, DefaultLocation) >>
          /\ events' = <<>>
     ELSE /\ frames' = <<>>
          /\ events' = << Event("noCallTreeAvailable", NoStep) >>
  /\ UNCHANGED <<trace, env>>

\* a caller that drops the error of a nested activation and resumes after the step
StepFailResumesCaller ==
  /\ InLoop
  /\ RawLocation(Top) = Unresolvable
  /\ IF Len(frames) = 1
     THEN /\ frames' = <<>>
          /\ events' = Append(events, Event("callTreeBuildFailed", Top.step))
     ELSE /\ frames' = [SubSeq(frames, 1, Len(frames) - 1) EXCEPT
                          ![Len(frames) - 1].step = Top.step + 1]
          /\ events' = events
  /\ UNCHANGED <<trace, env, tree, loaded, previous, parked, answer, wallet, tutorial>>

\* lines 343-378: resolving the location throws; every pending activation returns the
\* error and the handler triggers callTreeBuildFailed (lines 93-94, 478-479)
StepFail ==
  /\ InLoop
  /\ RawLocation(Top) = Unresolvable
  /\ frames' = <<>>
  /\ events' = Append(events, Event("callTreeBuildFailed", Top.step))
  /\ UNCHANGED <<trace, env, tree, loaded, previous, parked, answer, wallet, tutorial>>

\* line 444: no AST for the valid location's file.  The TypeError rejects the promise of
\* the outermost activation (callTreeNotReady, lines 100-103); in a nested activation
\* the caller's catch turns it into an error result (line 485)
StepThrow ==
  /\ InLoop
  /\ RawLocation(Top) # Unresolvable
  /\ AstMissing(Top)
  /\ trace' = TraceAfter(Top)
  /\ tree' = Accounted(Top)
  /\ frames' = <<>>
  /\ events' = Append(events,
                      IF Len(frames) = 1
                      THEN Event("callTreeNotReady", NoStep)
                      ELSE Event("callTreeBuildFailed", frames[Len(frames) - 1].step))
  /\ UNCHANGED <<env, loaded, previous, parked, answer, wallet, tutorial>>

\* a scope registered at the step after the one that opens it
FirstStepAfter(step) == step + 1

\* the step a new scope is registered at (scopeStarts key and firstStep)
FirstStepOf(step) == step

\* lines 463-477 and the prologue of the new activation (lines 309-313)
StepOpen ==
  /\ InLoop
  /\ RawLocation(Top) # Unresolvable
  /\ ~AstMissing(Top)
  /\ OpensScope(Top)
  /\ Len(frames) < MaxNest
  /\ LET f == Top
         step == f.step
         newScopeId == Append(f.scopeId, f.subScope)
         functionDefinition == FunctionDefinitionAt(f)
         ctor == constructorExecutionStarts(f)
         nextStep == IF ctor THEN step ELSE step + 1
         t0 == Armed(f)
         t1 == [t0 EXCEPT !.scopeStarts = Put(@, FirstStepOf(step), newScopeId),
                          !.scopes = Put(@, newScopeId, Scope(FirstStepOf(step), f.isCreation))]
         t2 == IF ctor
               THEN [registerFunctionParameters(
                       [t1 EXCEPT
                          !.constructorsStartExecution =
                              Put(@, t1.pendingConstructorId, t1.pendingConstructorExecutionAt),
                          !.pendingConstructorExecutionAt = -1,
                          !.pendingConstructorId = -1],
                       t1.pendingConstructor, step, newScopeId, f.previousValidSourceLocation)
                     EXCEPT !.pendingConstructor = NoNode]
               ELSE t1
         t3 == IF functionDefinition # NoNode
               THEN registerFunctionParameters(t2, functionDefinition, nextStep, newScopeId,
                                               ValidLocation(f))
               ELSE t2
     IN /\ tree' = t3
        /\ frames' = Append([frames EXCEPT ![Len(frames)].currentSourceLocation =
                                              CurrentLocation(f)],
                            Frame(newScopeId, nextStep, isCreateInstruction(trace[step]),
                                  RawLocation(f), ValidLocation(f)))
  /\ trace' = TraceAfter(Top)
  /\ UNCHANGED <<env, events, loaded, previous, parked, answer, wallet, tutorial>>

\* a close that stamps the enclosing scope
ClosedScopeParent(f) == IF Len(f.scopeId) > 1 THEN parentScope(f.scopeId) ELSE f.scopeId

\* the scope whose lastStep a close stamps
ClosedScope(f) == f.scopeId

\* lines 487-490
StepClose ==
  /\ InLoop
  /\ RawLocation(Top) # Unresolvable
  /\ ~AstMissing(Top)
  /\ ~OpensScope(Top)
  /\ ClosesScope(Top)
  /\ Returned([Armed(Top) EXCEPT !.scopes[ClosedScope(Top)].lastStep = Top.step], Top.step + 1)
  /\ trace' = TraceAfter(Top)
  /\ UNCHANGED <<env, loaded, previous, parked, answer, wallet, tutorial>>

\* lines 491-500
StepPlain ==
  /\ InLoop
  /\ RawLocation(Top) # Unresolvable
  /\ ~AstMissing(Top)
  /\ ~OpensScope(Top)
  /\ ~ClosesScope(Top)
  /\ LET f == Top
     IN /\ tree' = IF env.includeLocalVariables
                   THEN includeVariableDeclaration(Armed(f), f.step, RawLocation(f), f.scopeId)
                   ELSE Armed(f)
        /\ frames' = [frames EXCEPT
                        ![Len(frames)].currentSourceLocation = CurrentLocation(f),
                        ![Len(frames)].previousValidSourceLocation = ValidLocation(f),
                        ![Len(frames)].step = f.step + 1]
  /\ trace' = TraceAfter(Top)
  /\ UNCHANGED <<env, events, loaded, previous, parked, answer, wallet, tutorial>>

\* line 502: the cursor of the innermost activation is at the end of the trace
ReturnAtEnd ==
  /\ Building
  /\ Top.step >= TraceLength
  /\ Returned(tree, Top.step)
  /\ UNCHANGED <<trace, env, loaded, previous, parked, answer, wallet, tutorial>>

\* the debugger loads the trace once
NewTraceLoaded == ~loaded /\ Load /\ UNCHANGED <<parked, answer, wallet, tutorial>>

\* the debugger loads the same trace again once the previous load has finished
TraceReloaded == loaded /\ ~Building /\ Load /\ UNCHANGED <<parked, answer, wallet, tutorial>>

Next ==
  \/ NewTraceLoaded
  \/ StepFail
  \/ StepThrow
  \/ StepOpen
  \/ StepClose
  \/ StepPlain
  \/ ReturnAtEnd

Spec == Init /\ [][Next]_vars

\* the traces of at most ShortTraceLen steps
InitShort == Init /\ TraceLength <= ShortTraceLen

\* the event loop runs every continuation that is ready to run
SpecFair == InitShort /\ [][Next]_vars /\ WF_vars(Next)

NextReload == Next \/ TraceReloaded

SpecReload == Init /\ [][NextReload]_vars

\* a second newTraceLoaded arrives while the pass of the first is suspended at a lookup:
\* the handler runs as for any trace (reset, root scope, a new pass on the same tree
\* object), and the activations of the first pass stay pending
TraceLoadedDuringBuild ==
  /\ loaded
  /\ Building
  /\ ~parked.reloaded
  /\ Load
  /\ parked' = [frames |-> frames, runsLatest |-> TRUE, reloaded |-> TRUE]
  /\ UNCHANGED <<answer, wallet, tutorial>>

\* the pass that runs is suspended at a lookup and the other pass resumes
Resume ==
  /\ parked.frames # <<>>
  /\ frames' = parked.frames
  /\ parked' = [parked EXCEPT !.frames = frames, !.runsLatest = ~@]
  /\ UNCHANGED <<trace, env, tree, events, loaded, previous, answer, wallet, tutorial>>

\* line 429 reads the scope of the running activation
ScopeKnown == Building => Has(tree.scopes, Top.scopeId)

\* line 429: the scope of a nested activation is gone (the tree was reset by a later
\* newTraceLoaded); the TypeError is caught by the caller (line 484) and every pending
\* activation of that pass returns the error (lines 478-479, 93-94)
StepLost ==
  /\ InLoop
  /\ RawLocation(Top) # Unresolvable
  /\ ~ScopeKnown
  /\ trace' = TraceAfter(Top)
  /\ tree' = [Accounted(Top) EXCEPT !.scopes = tree.scopes]
  /\ frames' = <<>>
  /\ events' = Append(events, Event("callTreeBuildFailed", frames[Len(frames) - 1].step))
  /\ UNCHANGED <<env, loaded, previous, parked, answer, wallet, tutorial>>

NextConcurrent ==
  \/ NewTraceLoaded
  \/ TraceLoadedDuringBuild
  \/ Resume
  \/ StepFail
  \/ StepLost
  \/ ScopeKnown /\ StepThrow
  \/ ScopeKnown /\ StepOpen
  \/ ScopeKnown /\ StepClose
  \/ ScopeKnown /\ StepPlain
  \/ ReturnAtEnd

SpecConcurrent == InitShort /\ [][NextConcurrent]_vars

---------------------------------------------------------------------------
(* Queries made by the debugger once a trace is loaded *)

\* the nodes of the AST of file 0 that carry a scope attribute: the contract and the
\* declarations of DeclarationStatements and of the parameter lists
ContractNode == [id |-> 30, src |-> <<0, 10, 0>>, scope |-> 31]

ScopedNodes ==
  {ContractNode} \cup {[id |-> v.id, src |-> v.src, scope |-> 1] : v \in VariableDeclarationNodes}

\* sourceLocationTracker.getValidSourceLocationFromVMTraceIndex: the location of the
\* nearest step at or before the index whose file is a source of the compilation
RECURSIVE getValidSourceLocationFromVMTraceIndex(_)
getValidSourceLocationFromVMTraceIndex(vmtraceStepIndex) ==
  IF vmtraceStepIndex < 0 THEN DefaultLocation
  ELSE LET map == env.srcmap[vmtraceStepIndex]
       IN IF map = Unresolvable THEN Unresolvable
          ELSE IF isInvalidSourceLocation(map, AmountOfSources)
          THEN getValidSourceLocationFromVMTraceIndex(vmtraceStepIndex - 1)
          ELSE map

\* nodesAtPositionForSourceLocation('', sourceLocation, { ast }): the nodes whose range
\* encloses the location; only those with a scope attribute are looked at
nodesAtPositionForSourceLocation(sourceLocation) ==
  {n \in ScopedNodes :
     /\ n.src[3] = sourceLocation.file
     /\ n.src[1] <= sourceLocation.start
     /\ n.src[1] + n.src[2] >= sourceLocation.start + sourceLocation.length}

\* the nodes of the AST by scope; the mapping is computed once and kept in the tree
getAllItemByScope(t) ==
  IF t.scopesMapping # EmptyMap THEN t
  ELSE [t EXCEPT !.scopesMapping =
          [sc \in {n.scope : n \in ScopedNodes} |-> {n.id : n \in {m \in ScopedNodes : m.scope = sc}}]]

\* printResolveLocals as findScope starts it: what it leaves in the tree
printResolveLocals(t, vmtraceIndex) ==
  LET sourceLocation == getValidSourceLocationFromVMTraceIndex(vmtraceIndex)
  IN IF sourceLocation = Unresolvable \/ ~HasAst(sourceLocation.file) THEN t
     ELSE IF nodesAtPositionForSourceLocation(sourceLocation) = {} THEN t
     ELSE getAllItemByScope(t)

Asked(q, args, r) == answer' = [query |-> q, args |-> args, result |-> r]

\* the arguments the debugger asks with
QueryFiles == SourceFiles \cup {AmountOfSources}

QueryLines ==
  {LineOf(k.loc) : k \in {j \in UNION {st.kinds : st \in Setups} : j.loc.start >= 0}} \cup {1}

QueryIds == {v.id : v \in VariableDeclarationNodes}

FindScope ==
  /\ Done
  /\ \E s \in Steps :
       /\ Asked("findScope", <<s>>, [NoResult EXCEPT !.scope = findScope(s)])
       /\ tree' = printResolveLocals(tree, s)
  /\ UNCHANGED <<trace, env, frames, events, loaded, previous, parked, wallet, tutorial>>

FindScopeId ==
  /\ Done
  /\ \E s \in Steps : Asked("findScopeId", <<s>>, [NoResult EXCEPT !.scope = findScopeId(s)])
  /\ UNCHANGED <<trace, env, tree, frames, events, loaded, previous, parked, wallet, tutorial>>

RetrieveFunctionsStack ==
  /\ Done
  /\ \E s \in Steps :
       /\ Asked("retrieveFunctionsStack", <<s>>,
                [NoResult EXCEPT !.functions = retrieveFunctionsStack(s)])
       /\ tree' = printResolveLocals(tree, s)
  /\ UNCHANGED <<trace, env, frames, events, loaded, previous, parked, wallet, tutorial>>

\* the promise of getGasCostPerLine resolves with the entry or rejects with the error
GetGasCostPerLine ==
  /\ loaded
  /\ \E file \in QueryFiles : \E line \in QueryLines :
       Asked("getGasCostPerLine", <<file, line>>,
             [NoResult EXCEPT !.entries = getGasCostPerLine(file, line),
                              !.error = IF getGasCostPerLine(file, line) = {}
                                        THEN "Could not find gas cost per line" ELSE ""])
  /\ UNCHANGED <<trace, env, tree, frames, events, loaded, previous, parked, wallet, tutorial>>

GetLocalVariableById ==
  /\ Done
  /\ \E id \in QueryIds :
       Asked("getLocalVariableById", <<id>>, [NoResult EXCEPT !.variables = getLocalVariableById(id)])
  /\ UNCHANGED <<trace, env, tree, frames, events, loaded, previous, parked, wallet, tutorial>>

NextQuery ==
  \/ Next
  \/ FindScope
  \/ FindScopeId
  \/ RetrieveFunctionsStack
  \/ GetGasCostPerLine
  \/ GetLocalVariableById

SpecQuery == InitShort /\ [][NextQuery]_vars

---------------------------------------------------------------------------
(* RemixWalletPlugin (src/unnamed/part_005): unlocking, locking and signing. *)
(* A call that awaits is in wallet.pending between its steps; wallet.emitted *)
(* is what the step just taken emitted, threw or returned.                    *)

WalletAddresses == {"0xab", "0xAB", "0xcd"}

\* address.toLowerCase()
toLowerCase(address) == IF address = "0xAB" THEN "0xab" ELSE address

SignMethods == {"signTransaction", "signMessage", "signTypedData"}

Emit(name, address) == [kind |-> "emit", name |-> name, address |-> address]

Throw(code, address) == [kind |-> "throw", name |-> code, address |-> address]

Return(method, address) == [kind |-> "return", name |-> method, address |-> address]

Call(op, address, stage) == [op |-> op, address |-> address, stage |-> stage]

RECURSIVE Range(_)
Range(seq) == IF seq = <<>> THEN {} ELSE {Head(seq)} \cup Range(Tail(seq))

\* this.unlockedWallets.has(key)
IsUnlocked(w, key) == key \in Range(w.unlocked)

RECURSIVE Without(_, _)
Without(seq, x) ==
  IF seq = <<>> THEN <<>>
  ELSE IF Head(seq) = x THEN Without(Tail(seq), x)
  ELSE <<Head(seq)>> \o Without(Tail(seq), x)

\* the walletLocked events of the loop of lockAllWallets, in the order of the map
LockedEvents(unlocked) == [i \in DOMAIN unlocked |-> Emit("walletLocked", unlocked[i])]

lockAllWallets(w) ==
  [w EXCEPT !.unlocked = <<>>, !.activeAddress = NoAddress,
            !.emitted = LockedEvents(w.unlocked), !.cleared = TRUE]

\* lockWallet(address): the fields after the call
lockWallet(w, address) ==
  LET normalizedAddress == toLowerCase(address)
      remaining == Without(w.unlocked, normalizedAddress)
  IN IF IsUnlocked(w, normalizedAddress)
     THEN [w EXCEPT !.unlocked = remaining,
                    !.activeAddress = IF w.activeAddress = normalizedAddress
                                      THEN (IF remaining # <<>> THEN remaining[1] ELSE NoAddress)
                                      ELSE @,
                    !.emitted = << Emit("walletLocked", address) >>]
     ELSE [w EXCEPT !.emitted = <<>>]

OtherVars == <<trace, env, tree, frames, events, loaded, previous, parked, answer, tutorial>>

\* onActivation: the token of localStorage is read and the auth listener registered
OnActivation ==
  /\ ~wallet.listening
  /\ \E token \in BOOLEAN :
       wallet' = [wallet EXCEPT !.listening = TRUE, !.token = token, !.emitted = <<>>]
  /\ UNCHANGED OtherVars

\* the authStateChanged listener: a login sets the token, a logout locks every wallet
AuthStateChanged ==
  /\ wallet.listening
  /\ \E token \in BOOLEAN :
       wallet' = IF token
                 THEN [wallet EXCEPT !.token = TRUE, !.emitted = <<>>]
                 ELSE [lockAllWallets(wallet) EXCEPT !.token = FALSE]
  /\ UNCHANGED OtherVars

OnDeactivation ==
  /\ wallet.listening
  /\ wallet' = [lockAllWallets(wallet) EXCEPT !.listening = FALSE]
  /\ UNCHANGED OtherVars

\* unlockWallet up to its first await on the server (lines 353-365)
UnlockWallet ==
  /\ wallet.listening
  /\ Cardinality(wallet.pending) < MaxInFlight
  /\ \E address \in WalletAddresses :
       LET normalizedAddress == toLowerCase(address)
           w == [wallet EXCEPT !.cleared = FALSE]
       IN wallet' =
            IF ~wallet.token
            THEN [w EXCEPT !.emitted = << Throw("NOT_AUTHENTICATED", address) >>]
            ELSE IF IsUnlocked(wallet, normalizedAddress)
            THEN [w EXCEPT !.activeAddress = normalizedAddress,
                           !.emitted = << Return("unlockWallet", address) >>]
            ELSE [w EXCEPT !.pending = @ \cup {Call("unlockWallet", address, "fetch")},
                           !.emitted = <<>>]
  /\ UNCHANGED OtherVars

\* the server answers getWalletForUnlock (lines 365-374)
UnlockFetched ==
  /\ \E c \in wallet.pending : \E ok \in BOOLEAN :
       /\ c.op = "unlockWallet"
       /\ c.stage = "fetch"
       /\ wallet' =
            IF ok
            THEN [wallet EXCEPT !.pending = (@ \ {c}) \cup {Call(c.op, c.address, "decrypt")},
                                !.emitted = <<>>]
            ELSE [wallet EXCEPT !.pending = @ \ {c},
                                !.emitted = << Throw("WALLET_NOT_FOUND", c.address) >>]
  /\ UNCHANGED OtherVars

\* decryptPrivateKey settles (lines 376-397)
UnlockDecrypted ==
  /\ \E c \in wallet.pending : \E ok \in BOOLEAN :
       /\ c.op = "unlockWallet"
       /\ c.stage = "decrypt"
       /\ LET normalizedAddress == toLowerCase(c.address)
          IN wallet' =
               IF ok
               THEN [wallet EXCEPT
                       !.pending = @ \ {c},
                       !.unlocked = IF IsUnlocked(wallet, normalizedAddress) THEN @
                                    ELSE Append(@, normalizedAddress),
                       !.activeAddress = normalizedAddress,
                       !.emitted = << Emit("walletUnlocked", c.address) >>]
               ELSE [wallet EXCEPT !.pending = @ \ {c},
                                   !.emitted = << Throw("INVALID_PASSWORD", c.address) >>]
  /\ UNCHANGED OtherVars

LockWallet ==
  /\ wallet.listening
  /\ \E address \in WalletAddresses : wallet' = lockWallet(wallet, address)
  /\ UNCHANGED OtherVars

\* deleteWallet: the wallet is locked first when it is unlocked (lines 291-312)
DeleteWallet ==
  /\ wallet.listening
  /\ \E address \in WalletAddresses : \E ok \in BOOLEAN :
       wallet' =
         IF ~wallet.token
         THEN [wallet EXCEPT !.emitted = << Throw("NOT_AUTHENTICATED", address) >>]
         ELSE LET w == lockWallet(wallet, address)
              IN [w EXCEPT !.emitted = @ \o << IF ok THEN Emit("walletDeleted", address)
                                                ELSE Throw("NETWORK_ERROR", address) >>]
  /\ UNCHANGED OtherVars

\* getUnlockedWallet: the key of the wallet it returns, NoAddress when it throws
getUnlockedWallet(w, address) ==
  IF IsUnlocked(w, toLowerCase(address)) THEN toLowerCase(address) ELSE NoAddress

\* signTransaction, signMessage, signTypedData up to the await on the ethers wallet
Sign ==
  /\ wallet.listening
  /\ Cardinality(wallet.pending) < MaxInFlight
  /\ \E method \in SignMethods : \E address \in WalletAddresses :
       wallet' =
         IF getUnlockedWallet(wallet, address) = NoAddress
         THEN [wallet EXCEPT !.emitted = << Throw("WALLET_LOCKED", address) >>]
         ELSE [wallet EXCEPT !.pending = @ \cup {Call(method, address, "signing")},
                             !.emitted = <<>>]
  /\ UNCHANGED OtherVars

\* the ethers wallet has signed: the event is emitted and the signature returned
Signed ==
  /\ \E c \in wallet.pending :
       /\ c.op \in SignMethods
       /\ wallet' =
            [wallet EXCEPT
               !.pending = @ \ {c},
               !.emitted =
                  (IF c.op = "signTransaction" THEN << Emit("transactionSigned", c.address) >>
                   ELSE IF c.op = "signMessage" THEN << Emit("messageSigned", c.address) >>
                   ELSE <<>>)
                  \o << Return(c.op, c.address) >>]
  /\ UNCHANGED OtherVars

NextWallet ==
  \/ OnActivation
  \/ AuthStateChanged
  \/ OnDeactivation
  \/ UnlockWallet
  \/ UnlockFetched
  \/ UnlockDecrypted
  \/ LockWallet
  \/ DeleteWallet
  \/ Sign
  \/ Signed

\* the debugger is idle: one trace without artifact, never loaded
InitIdle == Init /\ ~env.hasArtifact

SpecWallet == InitIdle /\ [][NextWallet]_vars

---------------------------------------------------------------------------
(* TutorialEventDetector (remix-ai-assistant, tutorials): the detection of  *)
(* the completion of a tutorial step.  tutorial.validating holds the calls  *)
(* of handleStepCompletion that await their validations; tutorial.completed *)
(* the step ids onStepComplete was called with since the last               *)
(* startMonitoring.                                                         *)

maxRetries == 10

\* the steps of the tutorial: their event triggers and the number of their validations
TutorialSteps ==
  { [id |-> "s1", triggers |-> {"dom", "plugin"}, validations |-> 1],
    [id |-> "s2", triggers |-> {"dom", "manual"}, validations |-> 0] }

StepOf(id) == CHOOSE st \in TutorialSteps : st.id = id

Listener(kind, stepId) == [kind |-> kind, step |-> stepId]

Search(stepId, retryCount) == [step |-> stepId, retryCount |-> retryCount]

\* cleanup(): the listeners are removed and currentStepId is null
cleanup(t) == [t EXCEPT !.listeners = {}, !.currentStepId = NoStepId]

\* callbacks.onStepComplete(stepId)
onStepComplete(t, stepId) == [t EXCEPT !.completed = Append(@, stepId)]

\* handleStepCompletion up to its await
handleStepCompletion(t, step) ==
  IF t.stepCompleted THEN t
  ELSE IF step.validations > 0 THEN [t EXCEPT !.validating = Append(@, step.id)]
  ELSE onStepComplete([t EXCEPT !.stepCompleted = TRUE], step.id)

WalletVars == <<trace, env, tree, frames, events, loaded, previous, parked, answer, wallet>>

CanCall == Len(tutorial.completed) < MaxCallbacks /\ Len(tutorial.validating) < MaxInFlight

\* startMonitoring(step); found: whether the element of the DOM trigger is there already
StartMonitoring ==
  /\ Cardinality(tutorial.searching) < MaxInFlight
  /\ \E step \in TutorialSteps : \E found \in BOOLEAN :
       LET t == [cleanup(tutorial) EXCEPT !.stepCompleted = FALSE, !.currentStepId = step.id,
                                           !.monitoring = TRUE, !.completed = <<>>]
       IN tutorial' =
            [t EXCEPT
               !.listeners =
                  {Listener("plugin", step.id) : k \in step.triggers \cap {"plugin"}}
                  \cup {Listener("dom", step.id) : k \in {j \in step.triggers \cap {"dom"} : found}},
               !.searching =
                  @ \cup {Search(step.id, 1) : k \in {j \in step.triggers \cap {"dom"} : ~found}}]
  /\ UNCHANGED WalletVars

\* the timer of checkElement fires (lines 81-124)
CheckElement ==
  /\ \E sr \in tutorial.searching : \E found \in BOOLEAN :
       tutorial' =
         IF tutorial.currentStepId # sr.step
         THEN [tutorial EXCEPT !.searching = @ \ {sr}]
         ELSE IF found
         THEN [tutorial EXCEPT !.searching = @ \ {sr},
                               !.listeners = @ \cup {Listener("dom", sr.step)}]
         ELSE IF sr.retryCount < maxRetries
         THEN [tutorial EXCEPT !.searching = (@ \ {sr}) \cup {Search(sr.step, sr.retryCount + 1)}]
         ELSE [tutorial EXCEPT !.searching = @ \ {sr}]
  /\ UNCHANGED WalletVars

\* a DOM or plugin event reaches a registered handler; valid: what the trigger's
\* validator says
TriggerEvent ==
  /\ CanCall
  /\ \E l \in tutorial.listeners : \E valid \in BOOLEAN :
       tutorial' =
         IF tutorial.currentStepId # l.step \/ ~valid THEN tutorial
         ELSE handleStepCompletion(tutorial, StepOf(l.step))
  /\ UNCHANGED WalletVars

\* the validations of a pending handleStepCompletion settle (lines 183-197)
ValidationsSettled ==
  /\ Len(tutorial.completed) < MaxCallbacks
  /\ \E i \in DOMAIN tutorial.validating : \E passed \in BOOLEAN :
       LET rest == [j \in 1..(Len(tutorial.validating) - 1) |->
                      tutorial.validating[IF j < i THEN j ELSE j + 1]]
           t == [tutorial EXCEPT !.validating = rest]
       IN tutorial' =
            IF passed
            THEN onStepComplete([t EXCEPT !.stepCompleted = TRUE], tutorial.validating[i])
            ELSE t
  /\ UNCHANGED WalletVars

\* completeCurrentStep(stepId), the Next button of the UI
CompleteCurrentStep ==
  /\ Len(tutorial.completed) < MaxCallbacks
  /\ \E step \in TutorialSteps :
       tutorial' =
         IF ~tutorial.stepCompleted
         THEN onStepComplete([tutorial EXCEPT !.stepCompleted = TRUE], step.id)
         ELSE tutorial
  /\ UNCHANGED WalletVars

Cleanup ==
  /\ tutorial' = cleanup(tutorial)
  /\ UNCHANGED WalletVars

Destroy ==
  /\ tutorial' = [cleanup(tutorial) EXCEPT !.stepCompleted = FALSE]
  /\ UNCHANGED WalletVars

NextTutorial ==
  \/ StartMonitoring
  \/ CheckElement
  \/ TriggerEvent
  \/ ValidationsSettled
  \/ CompleteCurrentStep
  \/ Cleanup
  \/ Destroy

SpecTutorial == InitIdle /\ [][NextTutorial]_vars

---------------------------------------------------------------------------
(* findEntryByRange asked with tables of its own: the entries of a table   *)
(* are given by their entry points, in the key order of the object.        *)

TableKeys == << "a", "b", "c", "d", "e" >>

TableOf(entryPoints) == [i \in DOMAIN entryPoints |-> Entry(TableKeys[i], entryPoints[i], i)]

FindTables == UNION {[1..n -> 1..MaxEntryPoint] : n \in 0..MaxTableLen}

FindEntryByRange ==
  /\ \E entryPoints \in FindTables : \E pc \in 0..(MaxEntryPoint + 1) :
       answer' = [query |-> "findEntryByRange", args |-> <<pc>> \o entryPoints,
                  result |-> [NoResult EXCEPT
                                !.key = findEntryByRange(pc, TableOf(entryPoints)).key]]
  /\ UNCHANGED <<trace, env, tree, frames, events, loaded, previous, parked, wallet, tutorial>>

NextFind == FindEntryByRange

SpecFind == InitIdle /\ [][NextFind]_vars

---------------------------------------------------------------------------
(* resolveVariableDeclaration asked for locations of several addresses     *)
(* during one build: tree.variableDeclarationByFile is the cache.          *)

Addresses == << CalledAddress, LibraryAddress >>

\* the source ranges the lookups are made with: those of the declarations of both
\* sources, and one that is no declaration
LookupRanges ==
  {n.src : n \in VariableDeclarationNodes \cup LibraryDeclarationNodes} \cup {<<0, 4, 0>>}

ResolveVariableDeclaration ==
  /\ \E a \in DOMAIN Addresses : \E src \in LookupRanges :
       LET r == resolveVariableDeclaration(tree, Loc(src[3], src[1], src[2], "-"), Addresses[a])
       IN /\ tree' = [tree EXCEPT !.variableDeclarationByFile = r.cache]
          /\ answer' = [query |-> "resolveVariableDeclaration", args |-> <<a>> \o src,
                        result |-> [NoResult EXCEPT !.declarations = r.declarations]]
  /\ UNCHANGED <<trace, env, frames, events, loaded, previous, parked, wallet, tutorial>>

\* reset() at the start of the next build
ResetCache ==
  /\ tree.variableDeclarationByFile # EmptyMap
  /\ tree' = reset
  /\ UNCHANGED <<trace, env, frames, events, loaded, previous, parked, answer, wallet, tutorial>>

NextResolve == ResolveVariableDeclaration \/ ResetCache

SpecResolve == InitIdle /\ [][NextResolve]_vars

---------------------------------------------------------------------------
(* registerFunctionParameters applied to function definitions of its own:  *)
(* the prologue of the activation of a scope that was just opened.         *)

\* the names of the parameter lists: '' is an unnamed parameter
InputNames == << <<>>, << "" >>, << "a" >>, << "", "" >>, << "a", "" >>, << "a", "b" >> >>

OutputNames == << <<>>, << "" >>, << "r" >>, << "", "r" >>, << "", "" >> >>

ParameterList(names, firstId) ==
  [i \in DOMAIN names |-> Param(firstId + i, names[i], <<firstId + i, 1, 0>>)]

\* FunctionDefinition nodes with every pair of the parameter lists
ParameterFunctions ==
  { [id |-> (100 + (10 * i)) + j, kind |-> "function", hasParameters |-> TRUE,
     inputs |-> ParameterList(InputNames[i], 60),
     outputs |-> ParameterList(OutputNames[j], 70)]
    : <<i, j>> \in (DOMAIN InputNames) \X (DOMAIN OutputNames) }

\* the scope the parameters are registered for
OpenedId == <<1, 1>>

\* the tree when buildTree is entered for the scope opened at step (lines 465-477)
JustOpened(step) ==
  [FreshTree EXCEPT !.scopeStarts = Put(Put(@, 0, RootId), step, OpenedId),
                    !.scopes = Put(Put(@, RootId, Scope(0, FALSE)), OpenedId, Scope(step, FALSE))]

RegisterFunctionParameters ==
  /\ ~loaded
  /\ \E functionDefinition \in ParameterFunctions : \E step \in Steps :
       tree' = registerFunctionParameters(JustOpened(step), functionDefinition, step,
                                          OpenedId, DefaultLocation)
  /\ UNCHANGED <<trace, env, frames, events, loaded, previous, parked, answer, wallet, tutorial>>

NextParameters == RegisterFunctionParameters

SpecParameters == InitShort /\ [][NextParameters]_vars

---------------------------------------------------------------------------
(* Properties *)

Triggered(name) == \E i \in DOMAIN events : events[i].name = name

\* the build has succeeded: callTreeReady has been triggered
Ready == Done /\ Triggered("callTreeReady")

ScopeIds == DOMAIN tree.scopes

IsSet(step) == step # NoStep

\* the range of scope id, open at the end when lastStep is unset, contains step s
Covers(id, s) ==
  /\ tree.scopes[id].firstStep <= s
  /\ (IsSet(tree.scopes[id].lastStep) => s <= tree.scopes[id].lastStep)

\* C1: after a successful build, for every step s of the trace findScope(s) returns a
\* registered scope whose range (firstStep to lastStep, or open-ended while lastStep is
\* unset) contains s.
C1_FindScopeCoversStep ==
  Ready => \A s \in Steps :
             /\ findScope(s) \in ScopeIds
             /\ Covers(findScope(s), s)

ChildIds == {id \in ScopeIds : Len(id) > 1}

\* C2: at every point of the pass and after it, a registered child scope starts no
\* earlier than its parent, and once the parent's lastStep is set the child's lastStep
\* is set too and is no later than the parent's.
C2_ChildRangeWithinParent ==
  \A id \in ChildIds :
    LET p == parentScope(id)
    IN /\ p \in ScopeIds
       /\ tree.scopes[p].firstStep <= tree.scopes[id].firstStep
       /\ IsSet(tree.scopes[p].lastStep) =>
            /\ IsSet(tree.scopes[id].lastStep)
            /\ tree.scopes[id].lastStep <= tree.scopes[p].lastStep

\* a scope other than the root has been closed after one of its own children
C2_Witness ==
  \E id \in ChildIds :
    /\ Len(id) > 2
    /\ IsSet(tree.scopes[parentScope(id)].lastStep)
    /\ tree.scopes[id].lastStep < tree.scopes[parentScope(id)].lastStep

Suffix(id) == id[Len(id)]

Sibling(id, n) == Append(parentScope(id), n)

\* the shape of the registered ids: the root, or p.n under a registered p with every
\* p.1 .. p.(n-1) registered and opened before p.n
IdsAreDense ==
  \A id \in ScopeIds :
    \/ id = RootId
    \/ /\ Len(id) > 1
       /\ parentScope(id) \in ScopeIds
       /\ Suffix(id) >= 1
       /\ \A m \in 1..(Suffix(id) - 1) :
            /\ Sibling(id, m) \in ScopeIds
            /\ tree.scopes[Sibling(id, m)].firstStep < tree.scopes[id].firstStep

\* a registered id is never given to another scope
IdsAreKept ==
  \A id \in ScopeIds :
    /\ id \in DOMAIN tree'.scopes
    /\ tree'.scopes[id].firstStep = tree.scopes[id].firstStep

\* C3: every registered scope id other than the root "1" is p.n with p registered, the
\* children of p are exactly p.1 .. p.k in the order they were opened, and no suffix is
\* ever reused.
C3_ScopeIdsFormDenseTree == [](RootId \in ScopeIds \/ ScopeIds = {}) /\ []IdsAreDense /\ [][IdsAreKept]_vars

\* a scope has two children, the second opened after the first was left
C3_Witness ==
  \E id \in ChildIds : Suffix(id) = 2 /\ IsSet(tree.scopes[Sibling(id, 1)].lastStep)

LastIndex == TraceLength - 1

\* the last step of the range of scope id: its lastStep, or the end of the trace
SpanEnd(id) == IF IsSet(tree.scopes[id].lastStep) THEN tree.scopes[id].lastStep ELSE LastIndex

Span(id) == tree.scopes[id].firstStep .. SpanEnd(id)

\* the steps the activation of scope id and the activations below it went through: a
\* scope other than the root starts after the step that opened it
Inside(id) == IF id = RootId THEN Span(id) ELSE (tree.scopes[id].firstStep + 1) .. SpanEnd(id)

ChildrenOf(id) == {c \in ChildIds : parentScope(c) = id}

\* the steps processed while scope id was the current scope
OwnSteps(id) == Inside(id) \ UNION {Inside(c) : c \in ChildrenOf(id)}

StepGas == [s \in Steps |-> trace[s].gasCost]

\* C4 as claimed: after a successful build the gasCost of the root scope is the sum of
\* the gasCost of every step of the root's span, each step counted once.
C4_RootGasIsSpanGas ==
  Ready => tree.scopes[RootId].gasCost = SumOver(Span(RootId), StepGas)

\* C4 amended: after a successful build the gasCost of the root scope is the sum of the
\* gasCost of the steps of its span that were processed while the root was the current
\* scope (the steps inside a child scope, after the step that opened it, are charged to
\* that child and not to the root), each counted once.
C4_RootGasIsOwnStepsGas ==
  Ready => tree.scopes[RootId].gasCost = SumOver(OwnSteps(RootId), StepGas)

\* a successful build in which a child of the root was charged some steps
C4_Witness ==
  /\ Ready
  /\ \E c \in ChildrenOf(RootId) : Inside(c) # {}
  /\ OwnSteps(RootId) # Span(RootId)

Reloaded == previous.scopes # EmptyMap

\* C5: once the same trace has been loaded again and that load has finished, scopes,
\* scopeStarts and gasCostPerLine are identical to those the previous load produced.
C5_ReloadGivesSameTree ==
  (Done /\ Reloaded) =>
     /\ tree.scopes = previous.scopes
     /\ tree.scopeStarts = previous.scopeStarts
     /\ tree.gasCostPerLine = previous.gasCostPerLine

\* a second successful build of a trace with a function scope and gas per line
C5_Witness ==
  /\ Ready
  /\ Reloaded
  /\ ChildIds # {}
  /\ tree.gasCostPerLine # EmptyMap
  /\ tree.processedFunctions # <<>>

\* step s has gone through lines 343-429 of a turn of the loop
Processed(s) == Has(tree.locationAndOpcodePerVMTraceIndex, s)

\* a CALL-family (not CREATE-family) instruction at step k, one call level deeper at k + 1
CallWithDepthIncrease(k) ==
  /\ isCallInstruction(trace[k])
  /\ ~isCreateInstruction(trace[k])
  /\ (k + 1) \in Steps
  /\ trace[k + 1].depth > trace[k].depth

CallSteps == {k \in Steps : CallWithDepthIncrease(k)}

\* the pass went through the call at step k and was not aborted there
CallTaken(k) == Processed(k) /\ ~Triggered("callTreeNotReady")

OutOfMatchedFunction(j) ==
  /\ env.srcmap[j].jump = "o"
  /\ \E file \in SourceFiles :
       FindFunctionNode(file, getFunctionDebugData(j, FALSE).id) # NoNode

TablesRead == {env.deployed} \cup (IF env.rootIsCreation THEN {env.creation} ELSE {})

\* the steps inside the code of a function with an id
ReachingSteps ==
  {s \in Steps : \E tbl \in TablesRead :
                   LET e == findEntryByRange(trace[s].pc, tbl)
                   IN e # NoEntry /\ e.id # 0}

\* the function ids of the debug data whose code the trace reaches
ReachedIds ==
  {findEntryByRange(trace[s].pc, tbl).id : s \in ReachingSteps, tbl \in TablesRead} \ {0, NoEntry.id}

\* constant call depth, no CALL or CREATE, no Out jump, and the code of exactly one
\* function of the AST, first reached at step k > 0
SingleInternalCall(k) ==
  /\ \A s \in Steps :
       /\ trace[s].depth = trace[0].depth
       /\ ~isCallInstruction(trace[s])
       /\ env.srcmap[s].jump # "o"
  /\ Cardinality(ReachedIds) = 1
  /\ \E file \in SourceFiles : \A id \in ReachedIds : FindFunctionNode(file, id) # NoNode
  /\ k \in ReachingSteps
  /\ \A s \in ReachingSteps : k <= s
  /\ k > 0

\* C7: for a trace of constant depth with no CALL/CREATE and no Out jump that first
\* reaches a single function at step k > 0, a finished build has exactly the scopes "1"
\* (firstStep 0, still open) and "1.1" (firstStep k), and retrieveFunctionsStack(s)
\* returns exactly one activation, that function's, for every s > k.
C7_SingleCallGivesTwoScopes ==
  \A k \in Steps :
    (Ready /\ SingleInternalCall(k)) =>
      /\ ScopeIds = {RootId, <<1, 1>>}
      /\ tree.scopes[RootId].firstStep = 0
      /\ ~IsSet(tree.scopes[RootId].lastStep)
      /\ tree.scopes[<<1, 1>>].firstStep = k
      /\ \A s \in Steps :
           s > k =>
             /\ Len(retrieveFunctionsStack(s)) = 1
             /\ retrieveFunctionsStack(s)[1].scopeId = <<1, 1>>
             /\ retrieveFunctionsStack(s)[1].functionDefinition \in ReachedIds

\* a finished build of such a trace with at least two steps after the entry
C7_Witness ==
  \E k \in Steps :
    /\ Ready
    /\ SingleInternalCall(k)
    /\ (k + 2) \in Steps
    /\ Len(retrieveFunctionsStack(k + 2)) = 1

\* step s is the entry instruction of a function with an id, in a trace that runs
\* deployed code only
EntersFunction(s, id) ==
  /\ ~env.rootIsCreation
  /\ \A r \in Steps : ~isCreateInstruction(trace[r])
  /\ trace[s].op = "JUMPDEST"
  /\ id # 0
  /\ \E i \in DOMAIN env.deployed :
       env.deployed[i].id = id /\ env.deployed[i].entryPoint = trace[s].pc

\* C8 as claimed: every activation of an internal function opens a new scope; a step
\* that enters a function whose id an earlier step of the trace already entered still
\* opens a child scope at that step.
C8_EveryActivationOpensScope ==
  \A s \in Steps : \A id \in ReachedIds :
    (/\ Processed(s)
     /\ EntersFunction(s, id)
     /\ \E r \in Steps : r < s /\ EntersFunction(r, id)) =>
       \E sc \in ChildIds : tree.scopes[sc].firstStep = s

\* the raw source-map entry of step s names no source file
RawInvalid(s) == isInvalidSourceLocation(env.srcmap[s], AmountOfSources)

\* the earlier steps whose raw source-map entry names a source file
PriorValid(s) ==
  {r \in Steps : r < s /\ env.srcmap[r] # Unresolvable /\ ~RawInvalid(r)}

Recorded(s) == tree.locationAndOpcodePerVMTraceIndex[s].sourceLocation

\* C9 as claimed: the valid location recorded for a processed step whose raw location
\* is invalid is the valid location of the most recent earlier step with a valid raw
\* file, and is never the default location.
C9_InvalidLocationTakesLastValid ==
  \A s \in Steps :
    (Processed(s) /\ RawInvalid(s) /\ PriorValid(s) # {}) =>
       /\ Processed(MaxOf(PriorValid(s)))
       /\ Recorded(s) = Recorded(MaxOf(PriorValid(s)))
       /\ Recorded(s) # DefaultLocation

\* a step whose raw source range is `key` has been processed
RangeProcessed(key) ==
  \E s \in Steps : Processed(s) /\ env.srcmap[s] # Unresolvable /\ SrcKey(env.srcmap[s]) = key

\* the ranges under which the index of a file lists declaration v
IndexKeysOf(v) ==
  {key \in DOMAIN extractVariableDeclarations(0) :
     \E i \in DOMAIN extractVariableDeclarations(0)[key] :
       extractVariableDeclarations(0)[key][i].id = v.id}

\* v is a parameter or a return parameter of function node n
ParameterOf(v, n) ==
  \/ \E i \in DOMAIN n.inputs : n.inputs[i].id = v.id
  \/ \E i \in DOMAIN n.outputs : n.outputs[i].id = v.id

\* the parameters of function id have been registered for some scope
ParametersRegistered(id) ==
  \E sc \in DOMAIN tree.functionDefinitionsByScope :
    tree.functionDefinitionsByScope[sc].functionDefinition = id

C11_ReadyMeansWholeTraceProcessed ==
  Ready => \A s \in Steps : Processed(s)

\* the innermost activation is about to restart at the step of its caller for the
\* second time in a row: it was itself started by a restart at this step with the same
\* isCreation flag, so the activation it starts is in the same position again
RestartsAgain ==
  /\ InLoop
  /\ Len(frames) >= 2
  /\ frames[Len(frames) - 1].step = Top.step
  /\ frames[Len(frames) - 1].isCreation = Top.isCreation
  /\ RawLocation(Top) # Unresolvable
  /\ ~AstMissing(Top)
  /\ constructorExecutionStarts(Top)

FailedAt(k) ==
  /\ env.srcmap[k] = Unresolvable
  /\ \E i \in DOMAIN events : events[i] = Event("callTreeBuildFailed", k)

\* after a failure at step k nothing of the pass is left: no activation is pending, no
\* step from k on has a record, no scope has been closed at k or later, and
\* callTreeReady has not been triggered
AbortedAt(k) ==
  /\ ~Building
  /\ ~Triggered("callTreeReady")
  /\ \A s \in Steps : s >= k => ~Processed(s)
  /\ \A id \in ScopeIds : IsSet(tree.scopes[id].lastStep) => tree.scopes[id].lastStep < k

\* the activation at the cursor cannot resolve its location: the next state of the
\* pass has the failed signal for that step
FailureIsSignalled ==
  (InLoop /\ RawLocation(Top) = Unresolvable) =>
     (events' = Append(events, Event("callTreeBuildFailed", Top.step)) /\ tree' = tree)

\* C14: if source-location resolution throws at step k, at any nesting depth, the whole
\* build aborts: the failed signal is triggered with k, no step after k is processed,
\* no enclosing scope resumes or receives a lastStep, and callTreeReady is not triggered.
C14_UnresolvableLocationAbortsBuild ==
  /\ [](\A k \in Steps : FailedAt(k) => AbortedAt(k))
  /\ [][FailureIsSignalled]_vars

\* the location of a step processed by a nested activation could not be resolved
C14_Witness ==
  \E k \in Steps :
    /\ FailedAt(k)
    /\ \E id \in ChildIds : tree.scopes[id].firstStep < k /\ ~IsSet(tree.scopes[id].lastStep)

\* C15: when no compiled artifact is available for the address called at step 0, the
\* handler triggers the signal of that case (noCallTreeAvailable) and nothing else, the
\* pass is never started and no step is processed.
C15_NoArtifactNoBuild ==
  (loaded /\ ~env.hasArtifact) =>
     /\ events = << Event("noCallTreeAvailable", NoStep) >>
     /\ ~Building
     /\ \A s \in Steps : ~Processed(s)
     /\ ~Triggered("callTreeReady")
     /\ ~Triggered("callTreeBuildFailed")

\* a trace of several steps has been loaded for an address without artifact
C15_Witness ==
  /\ loaded
  /\ ~env.hasArtifact
  /\ TraceLength >= 2
  /\ Triggered("noCallTreeAvailable")

\* C16 as claimed: whenever a started build does not complete successfully (an error
\* result, or an exception while processing a step, in the root scope or in a nested
\* one), callTreeBuildFailed is triggered.
C16_UnsuccessfulBuildTriggersFailed ==
  (Done /\ env.hasArtifact /\ ~Triggered("callTreeReady")) =>
     Triggered("callTreeBuildFailed")

OutcomeNames ==
  {"callTreeReady", "callTreeBuildFailed", "callTreeNotReady", "noCallTreeAvailable"}

\* the outcome events triggered since the trace was loaded
Outcomes == {i \in DOMAIN events : events[i].name \in OutcomeNames}

NothingObservable ==
  /\ \A s \in Steps : findScope(s) = NoScopeId /\ retrieveFunctionsStack(s) = <<>>
  /\ \A k \in DOMAIN tree.gasCostPerLine : getGasCostPerLine(k[1], k[2]) = {}
  /\ \A v \in VariableDeclarationNodes : getLocalVariableById(v.id) = {}

\* C18 as claimed: no partial result is observable before the pass completes
\* successfully: between newTraceLoaded and callTreeReady, and after a failed build,
\* findScope, retrieveFunctionsStack, getGasCostPerLine and getLocalVariableById return
\* no scope, gas entry or variable of the trace being built.
C18_NothingObservableBeforeReady ==
  (loaded /\ ~Triggered("callTreeReady")) => NothingObservable

\* C19 as claimed: when a second newTraceLoaded arrives while the build of the first
\* trace is in progress, the two builds share no mutable state: no step of the first
\* build changes the store of the second, so what callTreeReady publishes for the
\* second trace is derived from the second trace alone.
C19_FirstBuildLeavesSecondStoreAlone ==
  [][~parked.runsLatest => tree' = tree]_vars

\* the ids on the path from a scope id up to the root, innermost first
PathToRoot(id) == [i \in 1..Len(id) |-> SubSeq(id, 1, Len(id) - i + 1)]

HasRecord(id) == Has(tree.functionDefinitionsByScope, id)

\* the activation records of the scopes of a path that have one, in path order
RecordsOnPath(id) ==
  LET withRecord == SelectSeq(PathToRoot(id), HasRecord)
  IN [i \in 1..Len(withRecord) |->
        [scopeId |-> withRecord[i],
         functionDefinition |->
            tree.functionDefinitionsByScope[withRecord[i]].functionDefinition]]

\* C20 as claimed: retrieveFunctionsStack(s) returns, innermost first, exactly the
\* activation records of the scopes on the id path from findScope(s) up to the root
\* that have a record in functionDefinitionsByScope, and the empty list when no scope is
\* found for s.
C20_FunctionsStackFollowsScopePath ==
  \A s \in Steps :
    retrieveFunctionsStack(s) =
      IF findScope(s) = NoScopeId THEN <<>> ELSE RecordsOnPath(findScope(s))

GasLines == DOMAIN tree.gasCostPerLine

RECURSIVE GasOfIndexes(_)
GasOfIndexes(indexes) ==
  IF indexes = <<>> THEN 0 ELSE trace[Head(indexes)].gasCost + GasOfIndexes(Tail(indexes))

\* the places (line key, position in its index list) step s is filed at
FiledAt(s) ==
  {<<k, i>> \in GasLines \X (1..(2 * MaxTraceLen)) :
     i <= Len(tree.gasCostPerLine[k].indexes) /\ tree.gasCostPerLine[k].indexes[i] = s}

\* the file and start line of the valid location recorded for step s
LineKeyOf(s) ==
  LET loc == tree.locationAndOpcodePerVMTraceIndex[s].sourceLocation
  IN <<loc.file, LineOf(loc)>>

\* C21 as claimed: with an offset-to-line converter, after the pass the gasCost of every
\* gasCostPerLine entry is the sum of the gasCost of the steps of its index list and
\* every processed step is in exactly one entry, exactly once, under the file and start
\* line of its valid location; without a converter gasCostPerLine stays empty.
C21_GasPerLineFilesEveryStepOnce ==
  Ready =>
    IF env.hasConverter
    THEN /\ \A k \in GasLines :
              tree.gasCostPerLine[k].gasCost = GasOfIndexes(tree.gasCostPerLine[k].indexes)
         /\ \A s \in Steps :
              Processed(s) =>
                /\ Cardinality(FiledAt(s)) = 1
                /\ \A p \in FiledAt(s) : p[1] = LineKeyOf(s)
    ELSE tree.gasCostPerLine = EmptyMap

\* the scopes a step registers an activation record for
NewlyRegistered == DOMAIN tree'.functionDefinitionsByScope \ DOMAIN tree.functionDefinitionsByScope

\* the FunctionDefinition node of the record registered for scope id
RegisteredNode(id) ==
  CHOOSE n \in FunctionNodes : n.id = tree'.functionDefinitionsByScope[id].functionDefinition

\* the step whose stack the registration reads: the first step of the new activation
RegistrationStep == frames'[Len(frames')].step

LocalName(params, i) == IF params[i].name = "" THEN DollarNames[i] ELSE params[i].name

\* parameter i (from 1) of params is a local of scope id with the given stackDepth
RecordedAt(id, params, i, depth) ==
  /\ Has(tree'.scopes[id].locals, LocalName(params, i))
  /\ tree'.scopes[id].locals[LocalName(params, i)].stackDepth = depth
  /\ tree'.scopes[id].locals[LocalName(params, i)].isParameter

C25_TraceIsNeverWritten == [][trace' = trace]_vars

\* the turn of the loop the step takes ends with a failure event
FailsNow ==
  /\ Len(events') > Len(events)
  /\ events'[Len(events')].name # "callTreeReady"

\* the step registers a scope that was not registered before
ScopeOpened == \E id \in DOMAIN tree'.scopes : id \notin DOMAIN tree.scopes

\* the scopes whose lastStep the step writes
Stamped == {id \in DOMAIN tree.scopes : tree'.scopes[id].lastStep # tree.scopes[id].lastStep}

\* the function id of the entry point table for step s was not met by the pass so far
NewlyDiscovered(s, isCreation) ==
  LET e == getFunctionDebugData(s, isCreation)
  IN /\ e # NoEntry
     /\ e.id # 0
     /\ ~\E i \in DOMAIN tree.processedFunctions : tree.processedFunctions[i] = e.id

OpenCondition(f) ==
  \/ getFunctionDebugData(f.step, f.isCreation).key = ConstructorKey
  \/ trace[f.step].op \in {"CALL", "STATICCALL", "CALLCODE", "DELEGATECALL", "CREATE", "CREATE2"}
  \/ NewlyDiscovered(f.step, f.isCreation)

DepthChanges(s) == (s + 1) \in Steps /\ trace[s].depth # trace[s + 1].depth

CloseCondition(f) ==
  \/ DepthChanges(f.step)
  \/ env.srcmap[f.step].jump = "o" /\ FunctionDefinitionAt(f) # NoNode

\* C29: a step (of a turn that does not abort the build) opens a new scope if and only
\* if the constructor-execution-start condition holds at it, or its opcode is a
\* CALL-family or CREATE-family instruction, or it is a newly discovered function entry
\* point; a step that satisfies an open condition and a close condition opens a scope,
\* starts an activation for it and stamps no lastStep.
C29_OpensIffOpenCondition ==
  [][(InLoop /\ ~FailsNow) =>
       /\ ScopeOpened <=> OpenCondition(Top)
       /\ OpenCondition(Top) =>
            /\ Stamped = {}
            /\ Len(frames') = Len(frames) + 1
            /\ frames'[Len(frames')].scopeId \notin DOMAIN tree.scopes]_vars

\* a CALL step followed by a depth change has opened a scope and the scope that was
\* current at it has not been closed there
C29_Witness ==
  \E k \in Steps :
    /\ isCallInstruction(trace[k])
    /\ DepthChanges(k)
    /\ Has(tree.scopeStarts, k)
    /\ tree.scopes[tree.scopeStarts[k]].firstStep = k
    /\ tree.scopes[parentScope(tree.scopeStarts[k])].lastStep # k
    /\ Processed(k + 1)

\* C30: on a step that does not open a scope (in a turn that does not abort the build)
\* the current scope is closed if and only if the call depth of this step differs from
\* the next step's, or the raw location's jump kind is Out and a function definition
\* was matched; closing sets the lastStep of the current scope to this step and the
\* calling activation resumes at step + 1; the last step of the trace never closes a
\* scope through a depth change.
C30_ClosesIffCloseCondition ==
  [][(InLoop /\ ~FailsNow /\ ~ScopeOpened) =>
       /\ (Stamped # {}) <=> CloseCondition(Top)
       /\ Stamped # {} =>
            /\ Stamped = {Top.scopeId}
            /\ tree'.scopes[Top.scopeId].lastStep = Top.step
            /\ Len(frames') = Len(frames) - 1
            /\ Len(frames) > 1 =>
                 /\ frames'[Len(frames')].step = Top.step + 1
                 /\ frames'[Len(frames')].scopeId = frames[Len(frames) - 1].scopeId
            /\ Top.step = LastIndex => env.srcmap[Top.step].jump = "o"]_vars

\* a nested scope has been closed by a depth change and another by an Out jump of a
\* matched function at the last step of the trace or before it, and the pass went on
\* in the caller
C30_Witness ==
  /\ \E id \in ChildIds :
       /\ IsSet(tree.scopes[id].lastStep)
       /\ DepthChanges(tree.scopes[id].lastStep)
       /\ Processed(tree.scopes[id].lastStep + 1)
  /\ \E id \in ChildIds :
       /\ IsSet(tree.scopes[id].lastStep)
       /\ ~DepthChanges(tree.scopes[id].lastStep)
       /\ env.srcmap[tree.scopes[id].lastStep].jump = "o"

\* the step is the answer to a query q
QueryAnswered(q) == answer' # answer /\ answer'.query = q

\* the pass attributed a processed step to the line of the file
Attributed(file, line) ==
  \E s \in Steps :
    /\ Processed(s)
    /\ tree.locationAndOpcodePerVMTraceIndex[s].sourceLocation.file = file
    /\ tree.locationAndOpcodePerVMTraceIndex[s].line = line

NotFound == "Could not find gas cost per line"

\* C22: getGasCostPerLine(file, line) returns the entry for (file, line) if and only if
\* at least one processed step was attributed to that file and line; otherwise it fails
\* with a 'not found' error, leaves every structure of the tree unchanged and does not
\* change the build outcome.
C22_GasCostPerLineLookup ==
  [][QueryAnswered("getGasCostPerLine") =>
       LET file == answer'.args[1]
           line == answer'.args[2]
           result == answer'.result
       IN /\ (result.entries # {}) <=> Attributed(file, line)
          /\ result.entries # {} =>
               /\ result.entries = {tree.gasCostPerLine[<<file, line>>]}
               /\ result.error = ""
          /\ result.entries = {} =>
               /\ result.error = NotFound
               /\ tree' = tree
               /\ frames' = frames
               /\ events' = events]_vars

\* a lookup failed for a line no step was attributed to, in a file with other lines
\* that have an entry, after a successful build
C22_Witness ==
  /\ Ready
  /\ answer.query = "getGasCostPerLine"
  /\ answer.result.error = NotFound
  /\ \E k \in GasLines : k[1] = answer.args[1] /\ k[2] # answer.args[2]

\* C24 as claimed: once the pass has completed, a call of a query method (findScope,
\* findScopeId, retrieveFunctionsStack, getGasCostPerLine, getLocalVariableById) leaves
\* every structure of the tree unchanged, the caches included.
C24_QueriesLeaveTreeUnchanged == [][Done => tree' = tree]_vars

\* what the step just taken emitted, threw or returned
Emitted == {wallet'.emitted[i] : i \in DOMAIN wallet'.emitted}

\* a signature was produced: the signed event or the return of a sign method
IsSignature(e) ==
  \/ e.kind = "emit" /\ e.name \in {"transactionSigned", "messageSigned"}
  \/ e.kind = "return" /\ e.name \in SignMethods

\* the sign calls the step has started
SignStarted == {c \in wallet'.pending \ wallet.pending : c.op \in SignMethods}

\* C26 as claimed: signTransaction, signMessage and signTypedData succeed for an address
\* only while the address is in the unlocked set; for any other address they throw
\* WALLET_LOCKED and no transactionSigned or messageSigned event is emitted.
C26_SignOnlyWhileUnlocked ==
  [][/\ \A e \in Emitted : IsSignature(e) => IsUnlocked(wallet, toLowerCase(e.address))
     /\ \A c \in SignStarted : IsUnlocked(wallet, toLowerCase(c.address))
     /\ \A e \in Emitted :
          (e.kind = "throw" /\ e.name = "WALLET_LOCKED") =>
             ~IsUnlocked(wallet, toLowerCase(e.address))]_vars

\* C27 as claimed: after a logout or the deactivation of the plugin no wallet is
\* unlocked and activeAddress is null until the next unlockWallet call is made, also
\* when an earlier unlockWallet call was in flight at the logout.
C27_LockedAfterLogout ==
  wallet.cleared => (wallet.unlocked = <<>> /\ wallet.activeAddress = NoAddress)

\* C28 as claimed: between two consecutive startMonitoring calls the detector invokes
\* onStepComplete at most once, also when several trigger events (DOM events, plugin
\* events, a manual completeCurrentStep) arrive while the validations of the step are
\* pending.
C28_AtMostOneCompletion ==
  tutorial.monitoring => Len(tutorial.completed) <= 1

\* a turn of the while loop runs lines 343-353 for the step of the innermost activation
TurnRuns == InLoop /\ RawLocation(Top) # Unresolvable

\* the turn pushes an id to processedFunctions: the step is flagged as an entry point
Flagged == Len(tree'.processedFunctions) > Len(tree.processedFunctions)

\* the ids of processedFunctions before the turn
SeenIds == Range(tree.processedFunctions)

NoDuplicates(seq) == \A i, j \in DOMAIN seq : seq[i] = seq[j] => i = j

\* C31 as claimed: during one pass processedFunctions only grows and holds each function
\* id at most once, and a step is flagged as a function entry point if and only if the
\* debug-data entry whose range contains its pc has an id that was not in
\* processedFunctions before that step, for every id value, 0 included.
C31_EntryPointIffIdUnseen ==
  [][TurnRuns =>
       LET e == getFunctionDebugData(Top.step, Top.isCreation)
       IN /\ SubSeq(tree'.processedFunctions, 1, Len(tree.processedFunctions)) = tree.processedFunctions
          /\ NoDuplicates(tree'.processedFunctions)
          /\ Flagged <=> (e # NoEntry /\ e.id \notin SeenIds)]_vars

\* the table and the pc of the last findEntryByRange call
AskedTable == TableOf(Tail(answer.args))

AskedPc == Head(answer.args)

\* the entries of the table at or below the pc
AtOrBelow == {i \in DOMAIN AskedTable : AskedTable[i].entryPoint <= AskedPc}

\* the table with its entries in another iteration order
Reordered(table, perm) == [i \in DOMAIN table |-> table[perm[i]]]

\* C32 as claimed: findEntryByRange(pc, table) returns the key of the entry with the
\* greatest entryPoint that is <= pc, and null when the table is empty or pc is below
\* every entry point; the result does not depend on the iteration order of the table.
C32_GreatestEntryPointAtOrBelow ==
  answer.query = "findEntryByRange" =>
    /\ (AtOrBelow = {}) <=> (answer.result.key = NoEntry.key)
    /\ AtOrBelow # {} =>
         \E i \in AtOrBelow :
           /\ AskedTable[i].key = answer.result.key
           /\ \A j \in AtOrBelow : AskedTable[j].entryPoint <= AskedTable[i].entryPoint
    /\ \A perm \in Permutations(DOMAIN AskedTable) :
         findEntryByRange(AskedPc, Reordered(AskedTable, perm)).key = answer.result.key

\* the raw location of the step is not included in the location the activation tracks
LocationChanges ==
  ~includedSource(env.srcmap[Top.step], Top.currentSourceLocation)

\* reducedTrace after lines 359-363 of the turn
ReducedAfterTurn ==
  IF LocationChanges THEN Append(tree.reducedTrace, Top.step) ELSE tree.reducedTrace

\* the location the activation tracks once the turn is over, when it goes on
TracksRawLocation ==
  (LocationChanges /\ Len(frames') >= Len(frames)) =>
     frames'[Len(frames)].currentSourceLocation = env.srcmap[Top.step]

\* the turn appends the step exactly when the location changes; the handler adds the
\* last index when the turn ends the pass
AppendedIffLocationChanges ==
  TurnRuns =>
    /\ \/ tree'.reducedTrace = ReducedAfterTurn
       \/ /\ frames' = <<>>
          /\ tree'.reducedTrace = Append(ReducedAfterTurn, TraceLength - 1)
    /\ TracksRawLocation

StrictlyIncreasing(seq) == \A i, j \in DOMAIN seq : i < j => seq[i] < seq[j]

\* reducedTrace once the build has succeeded
ReducedTraceIsSubsequence ==
  Ready =>
    /\ StrictlyIncreasing(tree.reducedTrace)
    /\ Range(tree.reducedTrace) \subseteq Steps
    /\ tree.reducedTrace # <<>>
    /\ tree.reducedTrace[Len(tree.reducedTrace)] = TraceLength - 1

\* C33 as claimed: a step is appended to reducedTrace exactly when its raw location is
\* not included (same file, range contained) in the currently tracked location, which
\* then becomes that raw location; after a successful build reducedTrace is a strictly
\* increasing sequence of step indices (a subsequence of the trace without duplicates)
\* whose last element is the last trace index.
C33_ReducedTraceIsStrictSubsequence ==
  [][AppendedIffLocationChanges]_vars /\ []ReducedTraceIsSubsequence

ScopeGas == [id \in ScopeIds |-> tree.scopes[id].gasCost]

\* the turn adds the gasCost of its step to the scope of the running activation and to
\* no other scope
ChargesCurrentScopeOnly ==
  TurnRuns =>
    \A id \in DOMAIN tree'.scopes :
      tree'.scopes[id].gasCost =
        (IF id \in ScopeIds THEN tree.scopes[id].gasCost ELSE 0)
        + (IF id = Top.scopeId THEN trace'[Top.step].gasCost ELSE 0)

\* C34 as claimed: each processed step's gasCost is added to exactly one scope, the scope
\* that is current when the step is processed (a scope-opening step is charged to the
\* parent, the steps inside the opened scope to the child), so that after the pass the sum
\* of gasCost over all scopes equals the sum of gasCost over all steps of the trace.
C34_ScopeGasSumsToTraceGas ==
  /\ [][ChargesCurrentScopeOnly]_vars
  /\ [](Ready => SumOver(ScopeIds, ScopeGas) = SumOver(Steps, StepGas))

\* the turn opens a scope because the step is a constructor execution start
ConstructorScopeOpens ==
  TurnRuns /\ ScopeOpened /\ getFunctionDebugData(Top.step, Top.isCreation).key = ConstructorKey

\* the scope the turn opens
OpenedScopeId == CHOOSE id \in DOMAIN tree'.scopes : id \notin DOMAIN tree.scopes

\* a constructor was armed by an earlier turn and is still pending
Pending ==
  /\ tree.pendingConstructorExecutionAt # -1
  /\ tree.pendingConstructorId # -1
  /\ tree.pendingConstructor # NoNode

\* the turn arms a constructor, whether or not it consumes it at once
Arms(id) ==
  /\ TurnRuns
  /\ tree.pendingConstructorExecutionAt = -1
  /\ FunctionDefinitionAt(Top).id = id
  /\ FunctionDefinitionAt(Top).kind = "constructor"
  /\ \/ tree'.pendingConstructorId = id
     \/ Has(tree'.constructorsStartExecution, id) /\ ~Has(tree.constructorsStartExecution, id)

\* opening the constructor scope consumes a constructor armed at an earlier step,
\* registers it for the new scope and resets the three pending fields
OpensAfterArming ==
  ConstructorScopeOpens =>
    /\ Pending
    /\ Has(tree'.constructorsStartExecution, tree.pendingConstructorId)
    /\ Has(tree'.functionDefinitionsByScope, OpenedScopeId)
    /\ tree'.functionDefinitionsByScope[OpenedScopeId].functionDefinition = tree.pendingConstructorId
    /\ tree'.pendingConstructorExecutionAt = -1
    /\ tree'.pendingConstructorId = -1
    /\ tree'.pendingConstructor = NoNode

\* a constructor that has started its execution is not armed again
ArmedOnce ==
  \A id \in {n.id : n \in FunctionNodes} :
    Arms(id) => ~Has(tree.constructorsStartExecution, id)

\* C35 as claimed: a constructor scope is opened only at a step strictly later than the
\* step at which pendingConstructorExecutionAt was armed for that constructor; opening it
\* registers the pending constructor's parameters, resets pendingConstructorExecutionAt
\* and pendingConstructorId to -1 and pendingConstructor to null; and each constructor is
\* armed at most once per trace.
C35_ConstructorOpensAfterArming ==
  [][OpensAfterArming /\ ArmedOnce]_vars

\* the declarations an extraction from the AST of the address and file lists under the
\* range, with no cache
Unmemoized(address, src) ==
  LET index == DeclarationsOfAst(src[3], address)
  IN IF HasAst(src[3]) /\ Has(index, src) THEN index[src] ELSE <<>>

\* C36 as claimed: within one build, the memoized variable-declaration lookup for a step
\* returns the same declarations as an unmemoized extraction from the AST of that step's
\* own address and file, for every sequence of steps, including traces that visit several
\* addresses whose compilations give the same file id to different sources.
C36_MemoizedLookupIsExtraction ==
  answer.query = "resolveVariableDeclaration" =>
    answer.result.declarations = Unmemoized(Addresses[Head(answer.args)], Tail(answer.args))

\* the scopeStarts entries whose value is scope id
StartsOf(id) == {k \in DOMAIN tree.scopeStarts : tree.scopeStarts[k] = id}

\* each registered scope is the value of exactly one entry, keyed by its firstStep
StartsMatchScopes ==
  \A id \in ScopeIds :
    /\ Cardinality(StartsOf(id)) = 1
    /\ StartsOf(id) = {tree.scopes[id].firstStep}

\* an entry keeps its scope during the pass
StartsAreKept ==
  \A k \in DOMAIN tree.scopeStarts :
    k \in DOMAIN tree'.scopeStarts /\ tree'.scopeStarts[k] = tree.scopeStarts[k]

\* C37 as claimed: scopeStarts and scopes stay consistent at every point of the pass:
\* each registered scope id is the value of exactly one scopeStarts entry, the key of that
\* entry is the scope's firstStep, and no scopeStarts entry is ever overwritten by a scope
\* opened later (including a scope opened at step 0 or at a replayed constructor step).
C37_ScopeStartsMatchScopes ==
  []StartsMatchScopes /\ [][StartsAreKept]_vars

\* the registered scopes that have a next sibling registered
WithNextSibling == {id \in ChildIds : Sibling(id, Suffix(id) + 1) \in ScopeIds}

\* C38: sibling scopes are disjoint and ordered: for any two children p.n and p.(n+1) of
\* the same parent, p.n.lastStep is set and p.n.lastStep < p.(n+1).firstStep.
C38_SiblingsAreDisjointAndOrdered ==
  \A id \in WithNextSibling :
    /\ IsSet(tree.scopes[id].lastStep)
    /\ tree.scopes[id].lastStep < tree.scopes[Sibling(id, Suffix(id) + 1)].firstStep

\* a scope other than the root has a second child, opened after the first was closed
C38_Witness ==
  \E id \in WithNextSibling :
    /\ Len(id) > 2
    /\ IsSet(tree.scopes[id].lastStep)

\* the flag recorded on the scope of every pending activation is the flag the activation
\* passes to getFunctionDebugData
RecordedFlagIsLookupFlag ==
  \A i \in DOMAIN frames :
    Has(tree.scopes, frames[i].scopeId) =>
      tree.scopes[frames[i].scopeId].isCreation = frames[i].isCreation

\* a scope opened by a CREATE-family instruction is recorded as creation
CreateOpensCreationScope ==
  (TurnRuns /\ ScopeOpened /\ isCreateInstruction(trace[Top.step])) =>
     tree'.scopes[OpenedScopeId].isCreation

\* a scope opened inside creation code for an internal function goes on with the
\* creation bytecode's debug data
FunctionInCreationCodeStaysCreation ==
  (TurnRuns /\ ScopeOpened /\ Top.isCreation /\ ~isCallInstruction(trace[Top.step])) =>
     frames'[Len(frames')].isCreation

\* C39 as claimed: the isCreation flag recorded on a scope equals the creation flag that
\* is used for the function-debug-data lookups of the steps processed inside that scope;
\* in particular a scope opened by a CREATE-family instruction is recorded with
\* isCreation = true, and a scope opened for an internal function inside creation code
\* keeps using the creation bytecode's debug data.
C39_RecordedCreationFlagIsLookupFlag ==
  /\ []RecordedFlagIsLookupFlag
  /\ [][CreateOpensCreationScope /\ FunctionInCreationCodeStaysCreation]_vars

\* the parameters of a function have been registered for the opened scope
ParametersAreRegistered == Has(tree.functionDefinitionsByScope, OpenedId)

RegisteredFunction ==
  CHOOSE n \in ParameterFunctions :
    n.id = tree.functionDefinitionsByScope[OpenedId].functionDefinition

\* the length of the stack at the step of the registration
RegisteredStackLength == trace[tree.functionCallStack[1]].stack

\* the declared parameters: <<"in", i>> and <<"out", j>>, counted from 1
DeclaredParameters ==
  {<<"in", i>> : i \in DOMAIN RegisteredFunction.inputs}
  \cup {<<"out", j>> : j \in DOMAIN RegisteredFunction.outputs}

ListOf(p) == IF p[1] = "in" THEN RegisteredFunction.inputs ELSE RegisteredFunction.outputs

\* the stack slot the code computes for a parameter (lines 632, 649)
SlotOf(p) ==
  IF p[1] = "in"
  THEN (RegisteredStackLength - Len(RegisteredFunction.inputs)) + (p[2] - 1)
  ELSE RegisteredStackLength + (p[2] - 1)

\* the declared name, or $<index> with the index of the parameter in its list
NameOf(p) == IF ListOf(p)[p[2]].name = "" THEN DollarNames[p[2]] ELSE ListOf(p)[p[2]].name

WithSlot == {p \in DeclaredParameters : SlotOf(p) >= 0}

RegisteredLocals == tree.scopes[OpenedId].locals

\* C40 as claimed: after parameter registration for a function, the scope's locals map
\* holds a distinct entry for every declared input and output parameter whose computed
\* stack slot is non-negative (unnamed ones under the synthesized name $<index>), and no
\* parameter's entry is overwritten by the entry of another parameter of the same
\* function; parameters whose computed slot is negative are omitted.
C40_EveryParameterHasItsOwnLocal ==
  ParametersAreRegistered =>
    /\ \A p \in WithSlot :
         /\ Has(RegisteredLocals, NameOf(p))
         /\ RegisteredLocals[NameOf(p)].stackDepth = SlotOf(p)
         /\ RegisteredLocals[NameOf(p)].isParameter
    /\ Cardinality(DOMAIN RegisteredLocals) = Cardinality(WithSlot)

====
